---------------------------- MODULE Spec2Model ----------------------------
(***************************************************************************)
(* Research-interaction streaming and resilience engine of                 *)
(* gemini_research_mcp (src/src/gemini_research_mcp/deep.py).              *)
(*                                                                         *)
(* Time is counted in whole seconds.  Strings of report text are modelled  *)
(* as sequences of tokens (a word or a blank), so that "".join() is        *)
(* sequence concatenation and str.strip() removes the blank tokens at both *)
(* ends.  None is the string NoneStr for ids and the number 0 for the      *)
(* client handle.  Calls are made with resolve_citations off: the module   *)
(* citations.py is not among the sources.                                  *)
(***************************************************************************)
EXTENDS Integers, Sequences, FiniteSets, TLC

VARIABLES
    \* ---- process-wide pool (deep.py:361-362) and the clock
    client,             \* _client: 0 is None, n > 0 is the n-th handle created
    health,             \* _client_health (present = FALSE is None)
    clients_created,    \* number of genai.Client objects created so far
    now,                \* time.time()
    cfg,                \* configuration read from the environment at import
    \* ---- probe of ClientHealth.needs_refresh()
    checked,            \* TRUE once needs_refresh() has been evaluated
    refresh,            \* the value it returned
    \* ---- the last operation on the pool, when the pool is driven alone
    last_op,            \* its name
    pool_before,        \* the pool it found
    invalidated,        \* the handle _force_client_refresh dropped last
    \* ---- the last step of process_stream, when the decoder is driven alone
    last_chunk,         \* the chunk it read
    last_event,         \* the progress event it yielded for it
    \* ---- one call of deep_research: deep_research_stream's locals
    pc,                 \* where the call is
    args,               \* auto_refine, grounded, resolve_citations
    my_client,          \* the local variable client
    initial_attempt,
    interaction_id,
    last_event_id,
    is_complete,
    stream_retry_count,
    disconnect_count,
    received_any_event,
    wait_time,
    \* ---- deep_research's locals
    text_parts,
    thinking_summaries,
    agg_id,             \* deep_research's own interaction_id
    final_text,
    raw_interaction,    \* TRUE once raw_interaction is set
    poll_start,
    result,             \* the DeepResearchResult being built
    critique,           \* the CritiqueResult of the auto-refine pass
    followup_i,         \* follow-up questions asked so far
    refinements,
    outcome,            \* how the call ended: returned, or raised with a code
    \* ---- the backend
    plan,               \* the answers the backend will give (free: any answer)
    stream,             \* the rest of the stream being read, when planned
    n_create,           \* create requests received
    n_resume,           \* get(stream=True) requests received
    n_poll,             \* get(id) requests received
    n_followup,         \* follow-up create requests received
    chunks_read,        \* chunks delivered in this call
    faults,             \* None answers and exceptions given in this call
    \* ---- history
    emitted_text,       \* contents of the text events yielded, concatenated
    seen_event_id,      \* event id of the last chunk read that carried one
    resume_req,         \* the last resume request sent
    initial_sleeps,     \* the backoff sleeps of the initial-connect phase
    before_critique,    \* the result when the critique pass began
    followup_log,       \* the follow-up calls made: request, backend answer, reply
    dry_resumes,        \* passes of the reconnection loop since the last event
    failed_on,          \* handles used by the resume attempts failed in a row
    grounded_call,      \* the fact-check call: the report it was given, its fate
    terminal_yielded,   \* TRUE once a complete or an error event was yielded
    \* ---- calls run concurrently on one event loop
    tasks,              \* per call: where it is, its local client, requests sent
    health_owner,       \* the handle the present health record was created with
    last_request,       \* the last backend request: who sent it, on which handle
    last_record         \* the last success or failure recorded: whose, where

poolVars == <<client, health, clients_created, now, cfg>>
decoderVars == <<last_chunk, last_event>>
taskVars == <<tasks, health_owner, last_request, last_record>>
probeVars == <<checked, refresh, last_op, pool_before, invalidated, decoderVars,
               taskVars>>
streamVars == <<my_client, initial_attempt, interaction_id, last_event_id,
                is_complete, stream_retry_count, disconnect_count,
                received_any_event, wait_time>>
aggVars == <<text_parts, thinking_summaries, agg_id, final_text,
             raw_interaction, poll_start>>
refineVars == <<result, critique, followup_i, refinements>>
backendVars == <<plan, stream, n_create, n_resume, n_poll, n_followup, chunks_read,
                 faults>>
historyVars == <<emitted_text, seen_event_id, resume_req, initial_sleeps,
                 before_critique, followup_log, dry_resumes, failed_on,
                 grounded_call, terminal_yielded>>
callVars == <<pc, args, outcome, streamVars, aggVars, refineVars, backendVars,
              historyVars>>
vars == <<poolVars, probeVars, callVars>>

-----------------------------------------------------------------------------
(* Bounds of the model *)

MaxClock == 6
MaxCount == 3
MaxFailures == 4
MaxChunks == 3
MaxFaults == 1
MaxPolls == 1

-----------------------------------------------------------------------------
(* Configuration (config.py) *)

MAX_INITIAL_RETRIES == 3
RECONNECT_DELAY == 2
STREAM_POLL_INTERVAL == 10
MAX_POLL_TIME == 3600

\* latency of a poll answer that takes the whole polling window
SlowResponse == MAX_POLL_TIME

\* consecutive_failures threshold of needs_refresh (deep.py:345)
FAILURE_LIMIT == 3

\* The settings deep.py imports from config.py that the config.py at hand
\* does not define: they are configuration, carried in cfg.
Config(age, requests, backoff, delay, s_backoff, s_delay, s_retries) ==
    [CLIENT_MAX_AGE_SECONDS |-> age,
     CLIENT_MAX_REQUESTS |-> requests,
     INITIAL_RETRY_BACKOFF |-> backoff,
     MAX_INITIAL_RETRY_DELAY |-> delay,
     STREAM_RETRY_BACKOFF |-> s_backoff,
     MAX_STREAM_RETRY_DELAY |-> s_delay,
     MAX_STREAM_RETRIES |-> s_retries]

\* a maximum age of 30 minutes, no request cap, delays doubling up to a
\* minute, a reconnection budget of 2
ShortConfig == Config(1800, 0, 2, 60, 2, 60, 2)

-----------------------------------------------------------------------------
(* ClientHealth (deep.py:304-357) *)

NoHealth ==
    [present |-> FALSE, created_at |-> 0, request_count |-> 0,
     last_request_at |-> 0, consecutive_failures |-> 0]

\* ClientHealth(): both timestamps default to time.time()
ClientHealth(t) ==
    [present |-> TRUE, created_at |-> t, request_count |-> 0,
     last_request_at |-> t, consecutive_failures |-> 0]

\* record_request that leaves the failure counter alone
record_request_keep_failures(h, t) ==
    [h EXCEPT !.request_count = @ + 1,
              !.last_request_at = t]

record_request(h, t) ==
    [h EXCEPT !.request_count = @ + 1,
              !.last_request_at = t,
              !.consecutive_failures = 0]

\* record_failure that also counts the failed call as a request
record_failure_counted(h) ==
    [h EXCEPT !.consecutive_failures = @ + 1,
              !.request_count = @ + 1]

record_failure(h) ==
    [h EXCEPT !.consecutive_failures = @ + 1]

\* needs_refresh with the failure test off by one (> instead of >=)
needs_refresh_late(h, t, c) ==
    LET age == t - h.created_at
        idle_time == t - h.last_request_at
    IN  IF age > c.CLIENT_MAX_AGE_SECONDS THEN TRUE
        ELSE IF c.CLIENT_MAX_REQUESTS > 0
                /\ h.request_count >= c.CLIENT_MAX_REQUESTS THEN TRUE
        ELSE IF h.consecutive_failures > FAILURE_LIMIT THEN TRUE
        ELSE IF 2 * idle_time > c.CLIENT_MAX_AGE_SECONDS THEN TRUE
        ELSE FALSE

\* needs_refresh with the request cap applied even when it is 0
needs_refresh_cap0(h, t, c) ==
    LET age == t - h.created_at
        idle_time == t - h.last_request_at
    IN  IF age > c.CLIENT_MAX_AGE_SECONDS THEN TRUE
        ELSE IF h.request_count >= c.CLIENT_MAX_REQUESTS THEN TRUE
        ELSE IF h.consecutive_failures >= FAILURE_LIMIT THEN TRUE
        ELSE IF 2 * idle_time > c.CLIENT_MAX_AGE_SECONDS THEN TRUE
        ELSE FALSE

\* idle_time > CLIENT_MAX_AGE_SECONDS / 2 is true division in Python:
\* over whole seconds it is 2 * idle_time > CLIENT_MAX_AGE_SECONDS.
needs_refresh(h, t, c) ==
    LET age == t - h.created_at
        idle_time == t - h.last_request_at
    IN  IF age > c.CLIENT_MAX_AGE_SECONDS THEN TRUE
        ELSE IF c.CLIENT_MAX_REQUESTS > 0
                /\ h.request_count >= c.CLIENT_MAX_REQUESTS THEN TRUE
        ELSE IF h.consecutive_failures >= FAILURE_LIMIT THEN TRUE
        ELSE IF 2 * idle_time > c.CLIENT_MAX_AGE_SECONDS THEN TRUE
        ELSE FALSE

-----------------------------------------------------------------------------
(* The pool (deep.py:360-396).  Each operator gives the pool after the call. *)

Pool(cl, h, n) == [client |-> cl, health |-> h, created |-> n]

CurrentPool == Pool(client, health, clients_created)

\* _get_healthy_client that never asks needs_refresh
get_healthy_client_stale(p, t, c) ==
    IF p.client = 0 \/ ~p.health.present
    THEN Pool(p.created + 1, ClientHealth(t), p.created + 1)
    ELSE p

get_healthy_client(p, t, c) ==
    IF p.client = 0 \/ ~p.health.present \/ needs_refresh(p.health, t, c)
    THEN Pool(p.created + 1, ClientHealth(t), p.created + 1)
    ELSE p

record_client_success(p, t) ==
    IF p.health.present
    THEN [p EXCEPT !.health = record_request(p.health, t)]
    ELSE p

record_client_failure(p) ==
    IF p.health.present
    THEN [p EXCEPT !.health = record_failure(p.health)]
    ELSE p

\* _force_client_refresh that clears the health record only
force_client_refresh_health_only(p) ==
    [p EXCEPT !.health = NoHealth]

force_client_refresh(p) ==
    [p EXCEPT !.client = 0, !.health = NoHealth]

SetPool(p) ==
    /\ client' = p.client
    /\ health' = p.health
    /\ clients_created' = p.created

\* no operation on the pool has been observed
NoOperation ==
    /\ last_op = "none"
    /\ pool_before = Pool(0, NoHealth, 0)
    /\ invalidated = 0

\* the calls that share the pool
Tasks == {1, 2}

\* no call has begun, nothing was sent or recorded
TasksIdle ==
    /\ tasks = [t \in Tasks |-> [pc |-> "idle", client |-> 0, sent |-> 0]]
    /\ health_owner = 0
    /\ last_request = [task |-> 0, client |-> 0, pool_client |-> 0]
    /\ last_record = [task |-> 0, client |-> 0, owner |-> 0]

\* the step op finds the current pool
Observe(op) ==
    /\ last_op' = op
    /\ pool_before' = CurrentPool
    /\ invalidated' = IF op = "force_client_refresh" /\ client # 0
                      THEN client ELSE invalidated

-----------------------------------------------------------------------------
(* Values exchanged with the backend *)

NoneStr == "None"

\* ---- exceptions: the type and str(e) as a sequence of words
NoExc == [type |-> "none", text |-> <<>>]
Exc(type, text) == [type |-> type, text |-> text]

NoneTypeError == Exc("TypeError", <<"'NoneType'", "object", "is", "not iterable">>)
OtherTypeError == Exc("TypeError", <<"unsupported", "operand">>)
GatewayTimeout == Exc("Exception", <<"gateway_timeout">>)
StreamClosed == Exc("Exception", <<"Stream", "CLOSED">>)
InvalidArgument == Exc("Exception", <<"invalid_argument">>)

\* config.py:46-55
RETRYABLE_ERRORS ==
    {"gateway_timeout", "deadline_expired", "timeout", "connection_reset",
     "closed", "aborted", "internal_error", "service_unavailable"}

\* str.lower() on the words that occur
Lower(w) ==
    CASE w = "CLOSED" -> "closed"
      [] w = "Stream" -> "stream"
      [] OTHER -> w

\* the classification taking every error text as retryable
is_retryable_error_any(text) == text # <<>>

\* config.py:89-92
is_retryable_error(text) ==
    \E i \in 1..Len(text) : Lower(text[i]) \in RETRYABLE_ERRORS

\* deep.py:655: "NoneType" in str(e) and "not iterable" in str(e)
IsNoneNotIterable(text) ==
    /\ \E i \in 1..Len(text) : text[i] = "'NoneType'"
    /\ \E i \in 1..Len(text) : text[i] = "not iterable"

\* ---- raw chunks of a stream
Chunk(et, id, dtype, content, status, eid) ==
    [event_type |-> et, id |-> id, dtype |-> dtype, content |-> content,
     status |-> status, event_id |-> eid]

StartChunk(id, eid) == Chunk("interaction.start", id, "", <<>>, "", eid)
ThoughtChunk(c, eid) == Chunk("content.delta", NoneStr, "thought_summary", c, "", eid)
TextChunk(c, eid) == Chunk("content.delta", NoneStr, "text", c, "", eid)
OtherDeltaChunk(eid) == Chunk("content.delta", NoneStr, "image", <<>>, "", eid)
CompleteChunk(status, eid) == Chunk("interaction.complete", NoneStr, "", <<>>, status, eid)
ErrorChunk(eid) == Chunk("error", NoneStr, "", <<"backend", "error">>, "", eid)
UnknownChunk(eid) == Chunk("interaction.status_update", NoneStr, "", <<>>, "", eid)

\* ---- progress events (types.py:145-152)
Progress(et, content, id, eid) ==
    [event_type |-> et, content |-> content, interaction_id |-> id,
     event_id |-> eid]

NoProgress == Progress("none", <<>>, NoneStr, NoneStr)

\* no chunk has been read
NoChunk == Chunk("", NoneStr, "", <<>>, "", NoneStr)

\* ---- answers to a request that opens a stream (create, or get with stream=True)
Resp(kind, exc, chunks, end) ==
    [kind |-> kind, exc |-> exc, chunks |-> chunks, end |-> end]

RespNone == Resp("none", NoExc, <<>>, NoExc)
RespRaise(e) == Resp("raise", e, <<>>, NoExc)
RespStream(chunks, end) == Resp("stream", NoExc, chunks, end)

\* ---- interaction snapshots returned by get(id) (deep.py:885-913)
\* kind "ok" or "raise"; has_output: outputs is not empty; text: the text of
\* the last output ("" also stands for None); latency: how long the answer took
Snapshot(kind, exc, status, has_output, text, latency) ==
    [kind |-> kind, exc |-> exc, status |-> status,
     has_output |-> has_output, text |-> text, latency |-> latency]

SnapshotOk(status, has_output, text, latency) ==
    Snapshot("ok", NoExc, status, has_output, text, latency)

SnapshotRaise(e, latency) == Snapshot("raise", e, "", FALSE, <<>>, latency)

-----------------------------------------------------------------------------
(* Text *)

IsBlank(tok) == tok = " "

RECURSIVE LStrip(_)
LStrip(s) ==
    IF s # <<>> /\ IsBlank(Head(s)) THEN LStrip(Tail(s)) ELSE s

RECURSIVE RStrip(_)
RStrip(s) ==
    IF s # <<>> /\ IsBlank(s[Len(s)]) THEN RStrip(SubSeq(s, 1, Len(s) - 1)) ELSE s

\* str.strip()
Strip(s) == RStrip(LStrip(s))

\* "".join(parts)
RECURSIVE Join(_)
Join(parts) ==
    IF parts = <<>> THEN <<>> ELSE Head(parts) \o Join(Tail(parts))

-----------------------------------------------------------------------------
(* process_stream, one chunk (deep.py:534-607).  st holds the nonlocal      *)
(* variables of deep_research_stream; the result is the state after the     *)
(* chunk and the progress event yielded for it (NoProgress for none).       *)

StreamState(id, eid, complete, any) ==
    [interaction_id |-> id, last_event_id |-> eid, is_complete |-> complete,
     received_any_event |-> any]

Decoded(st, ev) == [st |-> st, ev |-> ev]

\* the decoder yielding a text event for every content.delta that is not a
\* thought summary
process_chunk_any_delta(st, chunk) ==
    LET s0 == [st EXCEPT !.received_any_event = TRUE]
    IN  IF chunk.event_type = "interaction.start"
        THEN Decoded([s0 EXCEPT !.interaction_id = chunk.id],
                     Progress("start", <<>>, chunk.id, chunk.event_id))
        ELSE
        LET s1 == [s0 EXCEPT !.last_event_id =
                       IF chunk.event_id # NoneStr /\ chunk.event_id # ""
                       THEN chunk.event_id ELSE @]
        IN  IF chunk.event_type = "content.delta" /\ chunk.dtype = "thought_summary"
            THEN Decoded(s1, Progress("thought", chunk.content, s1.interaction_id, s1.last_event_id))
            ELSE IF chunk.event_type = "content.delta"
            THEN Decoded(s1, Progress("text", chunk.content, s1.interaction_id, s1.last_event_id))
            ELSE IF chunk.event_type = "interaction.complete" /\ chunk.status = "completed"
            THEN Decoded([s1 EXCEPT !.is_complete = TRUE],
                         Progress("complete", <<>>, s1.interaction_id, s1.last_event_id))
            ELSE IF chunk.event_type = "error"
            THEN Decoded([s1 EXCEPT !.is_complete = TRUE],
                         Progress("error", chunk.content, s1.interaction_id, s1.last_event_id))
            ELSE Decoded(s1, NoProgress)

\* the decoder taking every interaction.complete chunk as the end of the run
process_chunk_any_complete(st, chunk) ==
    LET s0 == [st EXCEPT !.received_any_event = TRUE]
    IN  IF chunk.event_type = "interaction.start"
        THEN Decoded([s0 EXCEPT !.interaction_id = chunk.id],
                     Progress("start", <<>>, chunk.id, chunk.event_id))
        ELSE
        LET s1 == [s0 EXCEPT !.last_event_id =
                       IF chunk.event_id # NoneStr /\ chunk.event_id # ""
                       THEN chunk.event_id ELSE @]
        IN  IF chunk.event_type = "content.delta" /\ chunk.dtype = "thought_summary"
            THEN Decoded(s1, Progress("thought", chunk.content, s1.interaction_id, s1.last_event_id))
            ELSE IF chunk.event_type = "content.delta" /\ chunk.dtype = "text"
            THEN Decoded(s1, Progress("text", chunk.content, s1.interaction_id, s1.last_event_id))
            ELSE IF chunk.event_type = "interaction.complete"
            THEN Decoded([s1 EXCEPT !.is_complete = TRUE],
                         Progress("complete", <<>>, s1.interaction_id, s1.last_event_id))
            ELSE IF chunk.event_type = "error"
            THEN Decoded([s1 EXCEPT !.is_complete = TRUE],
                         Progress("error", chunk.content, s1.interaction_id, s1.last_event_id))
            ELSE Decoded(s1, NoProgress)

\* the decoder setting is_complete for an interaction.complete chunk whose
\* status is not "completed", without an event
process_chunk_silent_complete(st, chunk) ==
    LET s0 == [st EXCEPT !.received_any_event = TRUE]
    IN  IF chunk.event_type = "interaction.start"
        THEN Decoded([s0 EXCEPT !.interaction_id = chunk.id],
                     Progress("start", <<>>, chunk.id, chunk.event_id))
        ELSE
        LET s1 == [s0 EXCEPT !.last_event_id =
                       IF chunk.event_id # NoneStr /\ chunk.event_id # ""
                       THEN chunk.event_id ELSE @]
        IN  IF chunk.event_type = "content.delta" /\ chunk.dtype = "thought_summary"
            THEN Decoded(s1, Progress("thought", chunk.content, s1.interaction_id, s1.last_event_id))
            ELSE IF chunk.event_type = "content.delta" /\ chunk.dtype = "text"
            THEN Decoded(s1, Progress("text", chunk.content, s1.interaction_id, s1.last_event_id))
            ELSE IF chunk.event_type = "interaction.complete" /\ chunk.status = "completed"
            THEN Decoded([s1 EXCEPT !.is_complete = TRUE],
                         Progress("complete", <<>>, s1.interaction_id, s1.last_event_id))
            ELSE IF chunk.event_type = "interaction.complete"
            THEN Decoded([s1 EXCEPT !.is_complete = TRUE], NoProgress)
            ELSE IF chunk.event_type = "error"
            THEN Decoded([s1 EXCEPT !.is_complete = TRUE],
                         Progress("error", chunk.content, s1.interaction_id, s1.last_event_id))
            ELSE Decoded(s1, NoProgress)

process_chunk(st, chunk) ==
    LET s0 == [st EXCEPT !.received_any_event = TRUE]
    IN  IF chunk.event_type = "interaction.start"
        THEN \* 542-551: continue before the event id is looked at
             Decoded([s0 EXCEPT !.interaction_id = chunk.id],
                     Progress("start", <<>>, chunk.id, chunk.event_id))
        ELSE
        LET s1 == [s0 EXCEPT !.last_event_id =
                       IF chunk.event_id # NoneStr /\ chunk.event_id # ""
                       THEN chunk.event_id ELSE @]
        IN  IF chunk.event_type = "content.delta" /\ chunk.dtype = "thought_summary"
            THEN Decoded(s1, Progress("thought", chunk.content, s1.interaction_id, s1.last_event_id))
            ELSE IF chunk.event_type = "content.delta" /\ chunk.dtype = "text"
            THEN Decoded(s1, Progress("text", chunk.content, s1.interaction_id, s1.last_event_id))
            ELSE IF chunk.event_type = "interaction.complete" /\ chunk.status = "completed"
            THEN Decoded([s1 EXCEPT !.is_complete = TRUE],
                         Progress("complete", <<>>, s1.interaction_id, s1.last_event_id))
            ELSE IF chunk.event_type = "error"
            THEN Decoded([s1 EXCEPT !.is_complete = TRUE],
                         Progress("error", chunk.content, s1.interaction_id, s1.last_event_id))
            ELSE Decoded(s1, NoProgress)

-----------------------------------------------------------------------------
(* deep_research, the body of its loop over the progress events            *)
(* (deep.py:860-873).  agg holds text_parts, thinking_summaries and         *)
(* interaction_id; raised is set by an error event.                         *)

Aggregate(parts, thoughts, id, raised) ==
    [text_parts |-> parts, thinking_summaries |-> thoughts,
     interaction_id |-> id, raised |-> raised]

\* the loop body with text deltas equal to the previous one dropped
fold_progress_dedup(agg, ev) ==
    IF ev.event_type = "start"
    THEN [agg EXCEPT !.interaction_id = ev.interaction_id]
    ELSE IF ev.event_type = "thought"
    THEN IF ev.content # <<>>
         THEN [agg EXCEPT !.thinking_summaries = Append(@, ev.content)]
         ELSE agg
    ELSE IF ev.event_type = "text"
    THEN IF ev.content # <<>>
            /\ (agg.text_parts = <<>>
                \/ agg.text_parts[Len(agg.text_parts)] # ev.content)
         THEN [agg EXCEPT !.text_parts = Append(@, ev.content)]
         ELSE agg
    ELSE IF ev.event_type = "error"
    THEN [agg EXCEPT !.raised = TRUE]
    ELSE agg

\* the loop body passing over error events
fold_progress_no_raise(agg, ev) ==
    IF ev.event_type = "start"
    THEN [agg EXCEPT !.interaction_id = ev.interaction_id]
    ELSE IF ev.event_type = "thought"
    THEN IF ev.content # <<>>
         THEN [agg EXCEPT !.thinking_summaries = Append(@, ev.content)]
         ELSE agg
    ELSE IF ev.event_type = "text"
    THEN IF ev.content # <<>>
         THEN [agg EXCEPT !.text_parts = Append(@, ev.content)]
         ELSE agg
    ELSE agg

fold_progress(agg, ev) ==
    IF ev.event_type = "start"
    THEN [agg EXCEPT !.interaction_id = ev.interaction_id]
    ELSE IF ev.event_type = "thought"
    THEN IF ev.content # <<>>
         THEN [agg EXCEPT !.thinking_summaries = Append(@, ev.content)]
         ELSE agg
    ELSE IF ev.event_type = "text"
    THEN IF ev.content # <<>>
         THEN [agg EXCEPT !.text_parts = Append(@, ev.content)]
         ELSE agg
    ELSE IF ev.event_type = "error"
    THEN [agg EXCEPT !.raised = TRUE]
    ELSE agg

-----------------------------------------------------------------------------
(* The backend.  Under a free plan every answer is chosen when the request  *)
(* is made; otherwise the plan lists the answers to the successive create,  *)
(* resume and poll requests (None, resp. "in_progress", once a list is      *)
(* used up).  The backend counts the requests and its faults: a free plan  *)
(* gives at most MaxFaults of them in a call.  Resume requests are counted  *)
(* only to follow a plan.                                                   *)

Plan(free, creates, resumes, polls) ==
    [free |-> free, creates |-> creates, resumes |-> resumes, polls |-> polls]

FreePlan == Plan(TRUE, <<>>, <<>>, <<>>)

NoStream == [rest |-> <<>>, end |-> NoExc]

InteractionIds == {"abc"}

\* the backend numbers the chunks of a call; a chunk carries its number as
\* event id, or no event id
EventId(n) ==
    CASE n = 1 -> "e1" [] n = 2 -> "e2" [] n = 3 -> "e3" [] n = 4 -> "e4"
      [] OTHER -> "e5"

EventIds(n) == {NoneStr, EventId(n)}
TextDeltas == {<<>>, <<" ">>, <<"a">>}
Thoughts == {<<>>, <<"t1">>}
Exceptions == {NoneTypeError, OtherTypeError, GatewayTimeout, InvalidArgument}

FreeChunks(n) ==
    UNION { { StartChunk(i, e) : i \in InteractionIds }
            \cup { ThoughtChunk(c, e) : c \in Thoughts }
            \cup { TextChunk(c, e) : c \in TextDeltas }
            \cup { CompleteChunk(st, e) : st \in {"completed", "in_progress"} }
            \cup { OtherDeltaChunk(e), ErrorChunk(e), UnknownChunk(e) }
          : e \in EventIds(n) }

\* answers to a request that opens a stream; under a free plan the chunks
\* of a stream are chosen as they are read
OpenAnswers(planned, n) ==
    IF plan.free
    THEN {RespStream(<<>>, NoExc)}
         \cup (IF faults < MaxFaults
               THEN {RespNone} \cup { RespRaise(e) : e \in Exceptions } ELSE {})
    ELSE IF n <= Len(planned) THEN {planned[n]} ELSE {RespNone}

Read(kind, chunk, exc) == [kind |-> kind, chunk |-> chunk, exc |-> exc]

\* what reading the open stream once can give: a chunk, its end, an exception
NextReads ==
    IF plan.free
    THEN (IF chunks_read < MaxChunks
          THEN { Read("chunk", c, NoExc) : c \in FreeChunks(chunks_read + 1) } ELSE {})
         \cup { Read("end", UnknownChunk(NoneStr), NoExc) }
         \cup (IF faults < MaxFaults
               THEN { Read("end", UnknownChunk(NoneStr), e) : e \in Exceptions }
               ELSE {})
    ELSE IF stream.rest # <<>>
         THEN { Read("chunk", Head(stream.rest), NoExc) }
         ELSE { Read("end", UnknownChunk(NoneStr), stream.end) }

-----------------------------------------------------------------------------
(* Decisions of deep_research_stream (deep.py:609-800) *)

Min(a, b) == IF a <= b THEN a ELSE b

RECURSIVE Pow(_, _)
Pow(b, n) == IF n <= 0 THEN 1 ELSE b * Pow(b, n - 1)

\* variant: one more turn of the loop
initial_loop_incl(attempt) == attempt <= MAX_INITIAL_RETRIES

\* 614: while initial_attempt < MAX_INITIAL_RETRIES
initial_loop(attempt) == attempt < MAX_INITIAL_RETRIES

\* variant: the delay is not capped
initial_wait_uncapped(attempt, c) ==
    RECONNECT_DELAY * Pow(c.INITIAL_RETRY_BACKOFF, attempt - 1)

\* 636-637, 661-662, 687-688
initial_wait(attempt, c) ==
    Min(RECONNECT_DELAY * Pow(c.INITIAL_RETRY_BACKOFF, attempt - 1),
        c.MAX_INITIAL_RETRY_DELAY)

\* 732-733
stream_wait(count, c) ==
    Min(RECONNECT_DELAY * Pow(c.STREAM_RETRY_BACKOFF, count - 1),
        c.MAX_STREAM_RETRY_DELAY)

\* 654-692: what the handlers of the initial loop do with an exception
Handling(retry, disconnect) == [retry |-> retry, disconnect |-> disconnect]

\* the handlers retrying every exception while attempts are left
initial_exception_retry_all(e, attempt) ==
    IF e.type = "TypeError"
    THEN IF IsNoneNotIterable(e.text)
         THEN Handling(TRUE, FALSE)
         ELSE Handling(attempt < MAX_INITIAL_RETRIES, TRUE)
    ELSE Handling(attempt < MAX_INITIAL_RETRIES, TRUE)

initial_exception(e, attempt) ==
    IF e.type = "TypeError"
    THEN IF IsNoneNotIterable(e.text)
         THEN Handling(TRUE, FALSE)
         ELSE Handling(FALSE, TRUE)
    ELSE Handling(is_retryable_error(e.text) /\ attempt < MAX_INITIAL_RETRIES, TRUE)

\* the loop condition of 722 letting one more pass through
reconnect_loop_incl(complete, id, count, c) ==
    ~complete /\ id # NoneStr /\ id # "" /\ count <= c.MAX_STREAM_RETRIES

\* 722: while not is_complete and interaction_id and stream_retry_count < MAX_STREAM_RETRIES
reconnect_loop(complete, id, count, c) ==
    ~complete /\ id # NoneStr /\ id # "" /\ count < c.MAX_STREAM_RETRIES

\* 697: if interaction_id is None and not is_complete
no_interaction(id, complete) == id = NoneStr /\ ~complete

\* 878: if not final_text.strip() and interaction_id
needs_polling(text, id) == Strip(text) = <<>> /\ id # NoneStr /\ id # ""

\* 883: while time.time() - poll_start < MAX_POLL_TIME
poll_loop(t, start) == t - start < MAX_POLL_TIME

-----------------------------------------------------------------------------
(* One call of deep_research *)

Outcome(kind, code) == [kind |-> kind, code |-> code]
Running == Outcome("running", "")
Raised(code) == Outcome("raised", code)
Returned == Outcome("returned", "")

Result(text, thoughts, id) ==
    [text |-> text, thinking_summaries |-> thoughts, interaction_id |-> id]

NoResult == Result(<<>>, <<>>, NoneStr)
NoCritique == [rating |-> "", follow_up_questions |-> <<>>]
\* a resume request as the backend sees it, with the event id of the last
\* chunk read so far that carried one
NoRequest ==
    [id |-> NoneStr, has_last_event_id |-> FALSE, last_event_id |-> NoneStr,
     processed_event_id |-> NoneStr]

Args(auto_refine, grounded, resolve_citations) ==
    [auto_refine |-> auto_refine, grounded |-> grounded,
     resolve_citations |-> resolve_citations]

\* 811: the argument timeout of every call here (a wait of 3 seconds at
\* most); no line of deep_research reads it, so no action does
timeout == 3

\* the call has not begun: its arguments a, the backend's plan pl, and the
\* locals of deep_research_stream (520-527) and deep_research (843-847)
CallIdle(pl, a) ==
    /\ pc = "idle"
    /\ args = a
    /\ outcome = Running
    /\ my_client = 0
    /\ initial_attempt = 0
    /\ interaction_id = NoneStr
    /\ last_event_id = NoneStr
    /\ is_complete = FALSE
    /\ stream_retry_count = 0
    /\ disconnect_count = 0
    /\ received_any_event = FALSE
    /\ wait_time = 0
    /\ text_parts = <<>>
    /\ thinking_summaries = <<>>
    /\ agg_id = NoneStr
    /\ final_text = <<>>
    /\ raw_interaction = FALSE
    /\ poll_start = 0
    /\ result = NoResult
    /\ critique = NoCritique
    /\ followup_i = 0
    /\ refinements = <<>>
    /\ plan = pl
    /\ stream = NoStream
    /\ n_create = 0
    /\ n_resume = 0
    /\ n_poll = 0
    /\ n_followup = 0
    /\ chunks_read = 0
    /\ faults = 0
    /\ emitted_text = <<>>
    /\ seen_event_id = NoneStr
    /\ resume_req = NoRequest
    /\ initial_sleeps = <<>>
    /\ before_critique = NoResult
    /\ followup_log = <<>>
    /\ dry_resumes = 0
    /\ failed_on = <<>>
    /\ grounded_call = [made |-> FALSE, raised |-> FALSE, report |-> <<>>]
    /\ terminal_yielded = FALSE
    /\ last_chunk = NoChunk
    /\ last_event = NoProgress

\* deep_research raises: nothing of the call runs any more
Raise(code) ==
    /\ pc' = "done"
    /\ outcome' = Raised(code)

\* 449-527 and 843-847: the call begins
StartCall ==
    /\ pc = "idle"
    /\ LET p == get_healthy_client(CurrentPool, now, cfg)
       IN  /\ SetPool(p)
           /\ my_client' = p.client
    /\ pc' = "connect"
    /\ UNCHANGED <<now, cfg, probeVars, args, outcome, initial_attempt, interaction_id,
                   last_event_id, is_complete, stream_retry_count,
                   disconnect_count, received_any_event, wait_time, aggVars,
                   refineVars, backendVars, historyVars>>

\* One chunk read from the open stream: process_stream decodes it (534-607)
\* and deep_research folds the event yielded, if any (855-873).  Under
\* reset_retry the yield is the one of the reconnection loop (763-766).
ConsumeChunk(chunk, reset_retry) ==
    LET d == process_chunk(StreamState(interaction_id, last_event_id,
                                       is_complete, received_any_event), chunk)
        yielded == d.ev.event_type # "none"
        a == IF yielded
             THEN fold_progress(Aggregate(text_parts, thinking_summaries,
                                          agg_id, FALSE), d.ev)
             ELSE Aggregate(text_parts, thinking_summaries, agg_id, FALSE)
    IN  /\ interaction_id' = d.st.interaction_id
        /\ last_event_id' = d.st.last_event_id
        /\ is_complete' = d.st.is_complete
        /\ received_any_event' = d.st.received_any_event
        /\ SetPool(IF d.ev.event_type = "start"
                   THEN record_client_success(CurrentPool, now)
                   ELSE CurrentPool)
        /\ text_parts' = a.text_parts
        /\ thinking_summaries' = a.thinking_summaries
        /\ agg_id' = a.interaction_id
        /\ stream_retry_count' =
               IF reset_retry /\ yielded /\ ~a.raised THEN 0 ELSE stream_retry_count
        /\ pc' = IF a.raised THEN "done" ELSE pc
        /\ outcome' = IF a.raised THEN Raised("RESEARCH_FAILED") ELSE outcome
        /\ stream' = IF plan.free THEN stream
                     ELSE [stream EXCEPT !.rest = Tail(@)]
        /\ chunks_read' = chunks_read + 1
        /\ emitted_text' = IF d.ev.event_type = "text"
                           THEN emitted_text \o d.ev.content ELSE emitted_text
        /\ seen_event_id' = IF chunk.event_id # NoneStr /\ chunk.event_id # ""
                            THEN chunk.event_id ELSE seen_event_id
        /\ dry_resumes' = IF reset_retry /\ yielded THEN 0 ELSE dry_resumes
        /\ terminal_yielded' =
               (terminal_yielded \/ d.ev.event_type \in {"complete", "error"})
        /\ UNCHANGED <<now, cfg, probeVars, args, my_client, initial_attempt,
                       disconnect_count, wait_time, final_text, raw_interaction,
                       poll_start, refineVars, plan, n_create, n_resume, n_poll,
                       n_followup, faults, resume_req, initial_sleeps,
                       before_critique, followup_log, failed_on, grounded_call>>

\* deep_research_stream yields its own error event (707-716, 791-800) and
\* deep_research folds it
YieldError ==
    LET a == fold_progress(Aggregate(text_parts, thinking_summaries, agg_id, FALSE),
                           Progress("error", <<"failed">>, interaction_id,
                                    last_event_id))
    IN  /\ pc' = IF a.raised THEN "done" ELSE "aggregate"
        /\ outcome' = IF a.raised THEN Raised("RESEARCH_FAILED") ELSE outcome
        /\ terminal_yielded' = TRUE

\* 654-692: an exception in the try block of the initial loop, p the pool
InitialExcept(e, attempt, p) ==
    LET h == initial_exception(e, attempt)
    IN  /\ SetPool(record_client_failure(p))
        /\ disconnect_count' = IF h.disconnect THEN disconnect_count + 1
                               ELSE disconnect_count
        /\ wait_time' = IF h.retry THEN initial_wait(attempt, cfg) ELSE wait_time
        /\ pc' = IF h.retry THEN "initial_sleep" ELSE "phase2"

\* 614-640: one attempt to create the interaction
ConnectAttempt ==
    /\ pc = "connect"
    /\ initial_loop(initial_attempt)
    /\ \E r \in OpenAnswers(plan.creates, n_create + 1) :
         LET attempt == initial_attempt + 1
             p == get_healthy_client(CurrentPool, now, cfg)
         IN  /\ initial_attempt' = attempt
             /\ my_client' = p.client
             /\ n_create' = n_create + 1
             /\ IF r.kind = "stream"
                THEN /\ SetPool(p)
                     /\ stream' = [rest |-> r.chunks, end |-> r.end]
                     /\ pc' = "initial_stream"
                     /\ UNCHANGED <<disconnect_count, wait_time>>
                ELSE IF r.kind = "none"
                THEN /\ SetPool(record_client_failure(p))
                     /\ wait_time' = initial_wait(attempt, cfg)
                     /\ pc' = "initial_sleep"
                     /\ UNCHANGED <<disconnect_count, stream>>
                ELSE /\ InitialExcept(r.exc, attempt, p)
                     /\ UNCHANGED stream
             /\ faults' = IF r.kind = "stream" THEN faults ELSE faults + 1
    /\ UNCHANGED <<now, cfg, probeVars, args, outcome, interaction_id,
                   last_event_id, is_complete, stream_retry_count,
                   received_any_event, aggVars, refineVars, plan, n_resume,
                   n_poll, n_followup, chunks_read, historyVars>>

\* 639, 664, 690: await asyncio.sleep(wait_time); continue
InitialSleep ==
    /\ pc = "initial_sleep"
    /\ now' = now + wait_time
    /\ initial_sleeps' = Append(initial_sleeps, wait_time)
    /\ pc' = IF initial_loop(initial_attempt) THEN "connect" ELSE "phase2"
    /\ UNCHANGED <<client, health, clients_created, cfg, probeVars, args, outcome,
                   streamVars, aggVars, refineVars, backendVars, emitted_text,
                   seen_event_id, resume_req, before_critique, followup_log,
                   dry_resumes, failed_on, grounded_call,
                   terminal_yielded>>

\* 643-652 and the handlers: one read of the stream of the initial loop
ReadInitial ==
    /\ pc = "initial_stream"
    /\ \E rd \in NextReads :
         IF rd.kind = "chunk"
         THEN ConsumeChunk(rd.chunk, FALSE)
         ELSE /\ IF rd.exc = NoExc
                 THEN /\ pc' = "phase2"
                      /\ UNCHANGED <<client, health, clients_created,
                                     disconnect_count, wait_time>>
                 ELSE InitialExcept(rd.exc, initial_attempt, CurrentPool)
              /\ faults' = IF rd.exc = NoExc THEN faults ELSE faults + 1
              /\ UNCHANGED <<now, cfg, probeVars, args, outcome, my_client,
                             initial_attempt, interaction_id, last_event_id,
                             is_complete, stream_retry_count, received_any_event,
                             aggVars, refineVars, plan, stream, n_create,
                             n_resume, n_poll, n_followup, chunks_read,
                             historyVars>>

ReconnectPc(complete, id, count) ==
    IF reconnect_loop(complete, id, count, cfg) THEN "reconnect" ELSE "phase4"

\* 697-717: no interaction id after the initial loop
CheckInteraction ==
    /\ pc = "phase2"
    /\ IF no_interaction(interaction_id, is_complete)
       THEN /\ SetPool(force_client_refresh(CurrentPool))
            /\ YieldError
       ELSE /\ pc' = ReconnectPc(is_complete, interaction_id, stream_retry_count)
            /\ UNCHANGED <<client, health, clients_created, outcome,
                           terminal_yielded>>
    /\ UNCHANGED <<now, cfg, probeVars, args, streamVars, aggVars, refineVars,
                   backendVars, emitted_text, seen_event_id, resume_req,
                   initial_sleeps, before_critique, followup_log, dry_resumes,
                   failed_on, grounded_call>>

\* 722-733: the reconnection loop is entered once more
Reconnect ==
    /\ pc = "reconnect"
    /\ stream_retry_count' = stream_retry_count + 1
    /\ wait_time' = stream_wait(stream_retry_count + 1, cfg)
    /\ pc' = "reconnect_sleep"
    /\ dry_resumes' = dry_resumes + 1
    /\ UNCHANGED <<poolVars, probeVars, args, outcome, my_client, initial_attempt,
                   interaction_id, last_event_id, is_complete, disconnect_count,
                   received_any_event, aggVars, refineVars, backendVars,
                   emitted_text, seen_event_id, resume_req, initial_sleeps,
                   before_critique, followup_log, failed_on, grounded_call,
                   terminal_yielded>>

\* 735: await asyncio.sleep(wait_time)
ReconnectSleep ==
    /\ pc = "reconnect_sleep"
    /\ now' = now + wait_time
    /\ pc' = "resume"
    /\ UNCHANGED <<client, health, clients_created, cfg, probeVars, args, outcome,
                   streamVars, aggVars, refineVars, backendVars, historyVars>>

\* 768-780: an exception in the try block of the reconnection loop
ResumeExcept(p) ==
    LET dc == disconnect_count + 1
        p1 == record_client_failure(p)
    IN  /\ disconnect_count' = dc
        /\ SetPool(IF dc >= 3 THEN force_client_refresh(p1) ELSE p1)
        /\ pc' = ReconnectPc(is_complete, interaction_id, stream_retry_count)

\* 737-761: the stream is requested again
ResumeAttempt ==
    /\ pc = "resume"
    /\ \E r \in OpenAnswers(plan.resumes, n_resume + 1) :
         LET p == get_healthy_client(CurrentPool, now, cfg)
         IN  /\ my_client' = p.client
             /\ n_resume' = IF plan.free THEN n_resume ELSE n_resume + 1
             /\ resume_req' = [id |-> interaction_id,
                               has_last_event_id |-> last_event_id # NoneStr,
                               last_event_id |-> last_event_id,
                               processed_event_id |-> seen_event_id]
             /\ IF r.kind = "stream"
                THEN /\ SetPool(record_client_success(p, now))
                     /\ stream' = [rest |-> r.chunks, end |-> r.end]
                     /\ pc' = "resumed_stream"
                     /\ UNCHANGED disconnect_count
                ELSE IF r.kind = "none"
                THEN /\ SetPool(record_client_failure(p))
                     /\ pc' = ReconnectPc(is_complete, interaction_id,
                                          stream_retry_count)
                     /\ UNCHANGED <<disconnect_count, stream>>
                ELSE /\ ResumeExcept(p)
                     /\ UNCHANGED stream
             /\ faults' = IF r.kind = "stream" THEN faults ELSE faults + 1
             /\ failed_on' = IF plan.free THEN failed_on
                              ELSE IF r.kind = "stream" THEN <<>>
                              ELSE Append(failed_on, p.client)
    /\ UNCHANGED <<now, cfg, probeVars, args, outcome, initial_attempt,
                   interaction_id, last_event_id, is_complete, stream_retry_count,
                   received_any_event, wait_time, aggVars, refineVars, plan,
                   n_create, n_poll, n_followup, chunks_read, emitted_text,
                   seen_event_id, initial_sleeps, before_critique, followup_log,
                   dry_resumes, grounded_call,
                   terminal_yielded>>

\* 763-780: one read of a resumed stream
ReadResumed ==
    /\ pc = "resumed_stream"
    /\ \E rd \in NextReads :
         IF rd.kind = "chunk"
         THEN ConsumeChunk(rd.chunk, TRUE)
         ELSE /\ IF rd.exc = NoExc
                 THEN /\ pc' = ReconnectPc(is_complete, interaction_id,
                                           stream_retry_count)
                      /\ UNCHANGED <<client, health, clients_created,
                                     disconnect_count>>
                 ELSE ResumeExcept(CurrentPool)
              /\ faults' = IF rd.exc = NoExc THEN faults ELSE faults + 1
              /\ UNCHANGED <<now, cfg, probeVars, args, outcome, my_client,
                             initial_attempt, interaction_id, last_event_id,
                             is_complete, stream_retry_count, received_any_event,
                             wait_time, aggVars, refineVars, plan, stream,
                             n_create, n_resume, n_poll, n_followup, chunks_read,
                             historyVars>>

\* 785-800: the final status check; the generator ends
FinalStatus ==
    /\ pc = "phase4"
    /\ IF ~is_complete
       THEN YieldError
       ELSE /\ pc' = "aggregate"
            /\ UNCHANGED <<outcome, terminal_yielded>>
    /\ UNCHANGED <<poolVars, probeVars, args, streamVars, aggVars, refineVars,
                   backendVars, emitted_text, seen_event_id, resume_req,
                   initial_sleeps, before_critique, followup_log, dry_resumes,
                   failed_on, grounded_call>>

-----------------------------------------------------------------------------
(* After the stream: polling (deep.py:875-930) *)

\* answers to get(id)
PollAnswers ==
    IF plan.free
    THEN LET terminal(l) ==
                 { SnapshotOk("completed", FALSE, <<>>, l),
                   SnapshotOk("completed", TRUE, <<>>, l),
                   SnapshotOk("completed", TRUE, <<" ">>, l),
                   SnapshotOk("completed", TRUE, <<"X">>, l),
                   SnapshotOk("failed", FALSE, <<>>, l) }
                 \cup (IF faults < MaxFaults
                       THEN {SnapshotRaise(InvalidArgument, l)} ELSE {})
             waiting(l) ==
                 { SnapshotOk("in_progress", FALSE, <<>>, l),
                   SnapshotOk("cancelled", FALSE, <<>>, l) }
                 \cup (IF faults < MaxFaults
                       THEN {SnapshotRaise(GatewayTimeout, l)} ELSE {})
         IN  terminal(0) \cup waiting(SlowResponse)
             \cup (IF n_poll < MaxPolls THEN waiting(0) ELSE {})
    ELSE IF n_poll + 1 <= Len(plan.polls) THEN {plan.polls[n_poll + 1]}
         ELSE {SnapshotOk("in_progress", FALSE, <<>>, 0)}

PollPc(t, start) == IF poll_loop(t, start) THEN "poll" ELSE "poll_end"

\* 875-881: the stream is over
Aggregation ==
    /\ pc = "aggregate"
    /\ LET text == Join(text_parts)
       IN  /\ final_text' = text
           /\ IF needs_polling(text, agg_id)
              THEN LET p == get_healthy_client(CurrentPool, now, cfg)
                   IN  /\ SetPool(p)
                       /\ my_client' = p.client
                       /\ poll_start' = now
                       /\ pc' = PollPc(now, now)
              ELSE /\ pc' = "result"
                   /\ UNCHANGED <<client, health, clients_created, my_client,
                                  poll_start>>
    /\ UNCHANGED <<now, cfg, probeVars, args, outcome, initial_attempt,
                   interaction_id, last_event_id, is_complete, stream_retry_count,
                   disconnect_count, received_any_event, wait_time, text_parts,
                   thinking_summaries, agg_id, raw_interaction, refineVars,
                   backendVars, historyVars>>

\* 884-923: one poll
Poll ==
    /\ pc = "poll"
    /\ \E s \in PollAnswers :
         /\ now' = now + s.latency
         /\ n_poll' = n_poll + 1
         /\ faults' = IF s.kind = "raise" THEN faults + 1 ELSE faults
         /\ IF s.kind = "raise"
            THEN /\ IF is_retryable_error(s.exc.text)
                    THEN /\ pc' = "poll_sleep"
                         /\ UNCHANGED outcome
                    ELSE Raise(s.exc.type)
                 /\ UNCHANGED <<client, health, clients_created, final_text,
                                raw_interaction>>
            ELSE /\ SetPool(record_client_success(CurrentPool, now + s.latency))
                 /\ IF s.status = "completed"
                    THEN /\ raw_interaction' = TRUE
                         /\ final_text' = IF s.has_output THEN s.text ELSE final_text
                         /\ pc' = "poll_end"
                         /\ UNCHANGED outcome
                    ELSE IF s.status = "failed"
                    THEN /\ Raise("RESEARCH_FAILED")
                         /\ UNCHANGED <<final_text, raw_interaction>>
                    ELSE /\ pc' = "poll_sleep"
                         /\ UNCHANGED <<outcome, final_text, raw_interaction>>
    /\ UNCHANGED <<cfg, probeVars, args, streamVars, text_parts,
                   thinking_summaries, agg_id, poll_start, refineVars, plan,
                   stream, n_create, n_resume, n_followup, chunks_read,
                   historyVars>>

\* 915, 921: await asyncio.sleep(STREAM_POLL_INTERVAL)
PollSleep ==
    /\ pc = "poll_sleep"
    /\ now' = now + STREAM_POLL_INTERVAL
    /\ pc' = PollPc(now + STREAM_POLL_INTERVAL, poll_start)
    /\ UNCHANGED <<client, health, clients_created, cfg, probeVars, args, outcome,
                   streamVars, aggVars, refineVars, backendVars, historyVars>>

\* 925-930: the polling loop is over
PollEnd ==
    /\ pc = "poll_end"
    /\ IF Strip(final_text) = <<>>
       THEN Raise("TIMEOUT")
       ELSE /\ pc' = "result"
            /\ UNCHANGED outcome
    /\ UNCHANGED <<poolVars, probeVars, args, streamVars, aggVars, refineVars,
                   backendVars, historyVars>>

-----------------------------------------------------------------------------
(* The result and the refinement passes (deep.py:932-1064) *)

\* CritiqueResult.needs_refinement (types.py), after its tests
needs_refinement(c) == c.rating # "PASS"

\* ---- answers of the text model to the critique prompt: it raises, or its
\* text has or lacks the line "RATING: PASS" and lists follow-up questions
CritiqueAnswer(kind, pass, questions) ==
    [kind |-> kind, pass |-> pass, questions |-> questions]

CritiqueAnswers ==
    {CritiqueAnswer("raise", FALSE, <<>>)}
    \cup { CritiqueAnswer("ok", ps, q) :
             ps \in BOOLEAN, q \in {<<>>, <<"q1">>, <<"q1", "q2", "q3", "q4">>} }

\* critique_research (deep.py:57-148)
critique_research(ans) ==
    IF ans.kind = "raise"
    THEN [rating |-> "PASS", follow_up_questions |-> <<>>]
    ELSE [rating |-> IF ans.pass THEN "PASS" ELSE "NEEDS_REFINEMENT",
          follow_up_questions |-> ans.questions]

\* ---- answers to a follow-up create: it raises, or it gives an interaction
\* with or without outputs, the last output with or without text
FollowupAnswer(kind, has_output, text) ==
    [kind |-> kind, has_output |-> has_output, text |-> text]

FollowupAnswers ==
    { FollowupAnswer("raise", FALSE, <<>>),
      FollowupAnswer("ok", FALSE, <<>>),
      FollowupAnswer("ok", TRUE, <<>>),
      FollowupAnswer("ok", TRUE, <<"R">>) }

Reply(raised, code, text) == [raised |-> raised, code |-> code, text |-> text]

\* research_followup (deep.py:1126-1159): every exception of the try block,
\* the NO_RESPONSE error included, is raised again as FOLLOWUP_FAILED
research_followup(ans) ==
    IF ans.kind = "raise"
    THEN Reply(TRUE, "FOLLOWUP_FAILED", <<>>)
    ELSE LET extracted == IF ans.has_output THEN ans.text ELSE <<>>
             text == IF extracted = <<>> /\ ans.has_output
                     THEN <<"str(output)">> ELSE extracted
         IN  IF text = <<>>
             THEN Reply(TRUE, "FOLLOWUP_FAILED", <<>>)
             ELSE Reply(FALSE, "", text)

\* ---- answers of the grounded model to the fact-check prompt
GroundedAnswer(kind, rating, verified, disputed) ==
    [kind |-> kind, rating |-> rating, verified |-> verified,
     disputed |-> disputed]

GroundedAnswers ==
    { GroundedAnswer("raise", "", <<>>, <<>>),
      GroundedAnswer("ok", "VERIFIED", <<"claim1">>, <<>>),
      GroundedAnswer("ok", "DISPUTED", <<>>, <<"claim2">>) }

\* grounded_critique (deep.py:151-296)
grounded_critique(ans) ==
    IF ans.kind = "raise"
    THEN [fact_check_rating |-> "INSUFFICIENT_DATA", claims_verified |-> <<>>,
          claims_disputed |-> <<>>]
    ELSE [fact_check_rating |-> ans.rating, claims_verified |-> ans.verified,
          claims_disputed |-> ans.disputed]

NumStr(n) == CASE n = 0 -> "0" [] n = 1 -> "1" [] n = 2 -> "2" [] OTHER -> "3"

\* variant: every question is asked
asked_questions_all(c) == c.follow_up_questions

\* 986: critique.follow_up_questions[:3]
asked_questions(c) ==
    SubSeq(c.follow_up_questions, 1, Min(3, Len(c.follow_up_questions)))

\* variant: the rating is not looked at
runs_followups_any(c) == c.follow_up_questions # <<>>

\* 967: if critique.needs_refinement and critique.follow_up_questions
runs_followups(c) == needs_refinement(c) /\ c.follow_up_questions # <<>>

\* variant: the critique pass is never entered
runs_critique_never(a, r) == FALSE

\* 952: if auto_refine and result.text and result.interaction_id
runs_critique(a, r) ==
    a.auto_refine /\ r.text # <<>> /\ r.interaction_id # NoneStr
    /\ r.interaction_id # ""

\* 1013: if grounded and result.text
runs_grounded(a, r) == a.grounded /\ r.text # <<>>

\* 932-952: the result is built (resolve_citations is off)
BuildResult ==
    /\ pc = "result"
    /\ ~args.resolve_citations
    /\ LET r == Result(final_text, thinking_summaries, agg_id)
       IN  /\ result' = r
           /\ pc' = IF runs_critique(args, r) THEN "critique" ELSE "grounded"
    /\ UNCHANGED <<poolVars, probeVars, args, outcome, streamVars, aggVars,
                   critique, followup_i, refinements, backendVars, historyVars>>

\* 953-967: the critique call and what it decides
Critique ==
    /\ pc = "critique"
    /\ \E ans \in CritiqueAnswers :
         LET p == get_healthy_client(CurrentPool, now, cfg)
             c == critique_research(ans)
         IN  /\ SetPool(IF ans.kind = "ok" THEN record_client_success(p, now)
                        ELSE p)
             /\ critique' = c
             /\ pc' = IF runs_followups(c) THEN "followup" ELSE "grounded"
    /\ before_critique' = result
    /\ UNCHANGED <<now, cfg, probeVars, args, outcome, streamVars, aggVars,
                   result, followup_i, refinements, backendVars, emitted_text,
                   seen_event_id, resume_req, initial_sleeps, followup_log,
                   dry_resumes, failed_on, grounded_call,
                   terminal_yielded>>

\* 986-1005: one follow-up question; after the last one the refinements
\* are appended to the report
FollowUp ==
    /\ pc = "followup"
    /\ \E ans \in FollowupAnswers :
         LET questions == asked_questions(critique)
             question == questions[followup_i + 1]
             p == get_healthy_client(CurrentPool, now, cfg)
             reply == research_followup(ans)
             refs == IF ~reply.raised /\ reply.text # <<>>
                     THEN Append(refinements, <<"### ", question>> \o reply.text)
                     ELSE refinements
             last == followup_i + 1 = Len(questions)
         IN  /\ SetPool(IF ans.kind = "ok" THEN record_client_success(p, now)
                        ELSE p)
             /\ n_followup' = n_followup + 1
             /\ followup_log' =
                    Append(followup_log,
                           [previous_interaction_id |-> result.interaction_id,
                            query |-> question, answer |-> ans, reply |-> reply])
             /\ followup_i' = followup_i + 1
             /\ refinements' = refs
             /\ result' = IF last /\ refs # <<>>
                          THEN [result EXCEPT
                                  !.text = @ \o <<"## Refinements">> \o Join(refs),
                                  !.thinking_summaries =
                                      Append(@, <<"Auto-refinement: Addressed ",
                                                  NumStr(Len(refs)), " gaps">>)]
                          ELSE result
             /\ pc' = IF last THEN "grounded" ELSE "followup"
    /\ UNCHANGED <<now, cfg, probeVars, args, outcome, streamVars, aggVars,
                   critique, plan, stream, n_create, n_resume, n_poll,
                   chunks_read, faults, emitted_text, seen_event_id, resume_req,
                   initial_sleeps, before_critique, dry_resumes, failed_on, grounded_call,
                   terminal_yielded>>

\* 1013-1062: the grounded fact-check
Grounded ==
    /\ pc = "grounded"
    /\ IF runs_grounded(args, result)
       THEN \E ans \in GroundedAnswers :
              LET p == get_healthy_client(CurrentPool, now, cfg)
                  g == grounded_critique(ans)
              IN  /\ SetPool(IF ans.kind = "ok"
                             THEN record_client_success(p, now) ELSE p)
                  /\ result' =
                       [result EXCEPT
                          !.text = @ \o <<"## Fact-Check", g.fact_check_rating>>
                                     \o g.claims_verified \o g.claims_disputed,
                          !.thinking_summaries =
                              Append(@, <<"Grounded fact-check: ",
                                          g.fact_check_rating>>)]
                  /\ grounded_call' = [made |-> TRUE, raised |-> ans.kind = "raise",
                                       report |-> result.text]
       ELSE UNCHANGED <<client, health, clients_created, result, grounded_call>>
    /\ pc' = "return"
    /\ UNCHANGED <<now, cfg, probeVars, args, outcome, streamVars, aggVars,
                   critique, followup_i, refinements, backendVars, emitted_text,
                   seen_event_id, resume_req, initial_sleeps, before_critique,
                   followup_log, dry_resumes, failed_on, terminal_yielded>>

\* 1064: return result
Return ==
    /\ pc = "return"
    /\ pc' = "done"
    /\ outcome' = Returned
    /\ UNCHANGED <<poolVars, probeVars, args, streamVars, aggVars, refineVars,
                   backendVars, historyVars>>

-----------------------------------------------------------------------------
(* Specification of the pool alone: the health record is driven by its     *)
(* recorder operations and the clock, and needs_refresh() is probed.       *)

PoolConfigs ==
    { Config(a, r, 2, 60, 2, 60, 5) : a \in 2..4, r \in 0..2 }

InitPool ==
    /\ cfg \in PoolConfigs
    /\ now \in 0..2
    /\ client = 1
    /\ clients_created = 1
    /\ \E c \in 0..now, l \in 0..now, f \in 0..MaxFailures, r \in 0..MaxCount :
          /\ c <= l
          /\ health = [present |-> TRUE, created_at |-> c, request_count |-> r,
                       last_request_at |-> l, consecutive_failures |-> f]
    /\ checked = FALSE
    /\ refresh = FALSE
    /\ NoOperation
    /\ TasksIdle
    /\ CallIdle(FreePlan, Args(FALSE, FALSE, FALSE))

Tick ==
    /\ now < MaxClock
    /\ now' = now + 1
    /\ checked' = FALSE
    /\ Observe("tick")
    /\ UNCHANGED <<client, health, clients_created, cfg, refresh, decoderVars, taskVars,
                   callVars>>

RecordSuccess ==
    /\ health.present => health.request_count < MaxCount
    /\ SetPool(record_client_success(CurrentPool, now))
    /\ checked' = FALSE
    /\ Observe("record_client_success")
    /\ UNCHANGED <<now, cfg, refresh, decoderVars, taskVars, callVars>>

RecordFailure ==
    /\ health.present => health.consecutive_failures < MaxFailures
    /\ SetPool(record_client_failure(CurrentPool))
    /\ checked' = FALSE
    /\ Observe("record_client_failure")
    /\ UNCHANGED <<now, cfg, refresh, decoderVars, taskVars, callVars>>

NeedsRefresh ==
    /\ health.present
    /\ checked' = TRUE
    /\ refresh' = needs_refresh(health, now, cfg)
    /\ Observe("needs_refresh")
    /\ UNCHANGED <<poolVars, decoderVars, taskVars, callVars>>

GetHealthyClient ==
    /\ clients_created < MaxCount
    /\ SetPool(get_healthy_client(CurrentPool, now, cfg))
    /\ checked' = FALSE
    /\ Observe("get_healthy_client")
    /\ UNCHANGED <<now, cfg, refresh, decoderVars, taskVars, callVars>>

ForceClientRefresh ==
    /\ SetPool(force_client_refresh(CurrentPool))
    /\ checked' = FALSE
    /\ Observe("force_client_refresh")
    /\ UNCHANGED <<now, cfg, refresh, decoderVars, taskVars, callVars>>

NextPool ==
    \/ Tick
    \/ RecordSuccess
    \/ RecordFailure
    \/ NeedsRefresh
    \/ GetHealthyClient
    \/ ForceClientRefresh

SpecPool == InitPool /\ [][NextPool]_vars

-----------------------------------------------------------------------------
(* Claims about ClientHealth *)

\* 325-326: the age and the idle time of the current record
Age == now - health.created_at
IdleTime == now - health.last_request_at

\* C7: a health record with 3 consecutive failures needs refresh; one with
\* 2 consecutive failures whose age, idle time and request count are all
\* fresh does not.
C7_FailureThreshold ==
    checked =>
        /\ (health.consecutive_failures = 3 => refresh)
        /\ (/\ health.consecutive_failures = 2
            /\ Age <= cfg.CLIENT_MAX_AGE_SECONDS
            /\ 2 * IdleTime <= cfg.CLIENT_MAX_AGE_SECONDS
            /\ (cfg.CLIENT_MAX_REQUESTS = 0
                \/ health.request_count < cfg.CLIENT_MAX_REQUESTS)
            => ~refresh)

C7_Witness ==
    /\ checked
    /\ health.consecutive_failures = 2
    /\ Age <= cfg.CLIENT_MAX_AGE_SECONDS
    /\ 2 * IdleTime <= cfg.CLIENT_MAX_AGE_SECONDS
    /\ cfg.CLIENT_MAX_REQUESTS > health.request_count
    /\ health.request_count > 0
    /\ ~refresh

\* C10: needs_refresh() is true exactly when the record is older than
\* MAX_AGE, or a non-zero request cap is reached, or there are at least 3
\* consecutive failures, or the record has been idle for more than
\* MAX_AGE / 2; a fresh record does not need refresh and a cap of 0 never
\* triggers it.
C10_RefreshIff ==
    checked =>
        /\ refresh <=>
              \/ Age > cfg.CLIENT_MAX_AGE_SECONDS
              \/ (cfg.CLIENT_MAX_REQUESTS # 0
                  /\ health.request_count >= cfg.CLIENT_MAX_REQUESTS)
              \/ health.consecutive_failures >= 3
              \/ 2 * IdleTime > cfg.CLIENT_MAX_AGE_SECONDS
        /\ (health = ClientHealth(now) => ~refresh)

C10_Witness ==
    /\ checked
    /\ cfg.CLIENT_MAX_REQUESTS = 0
    /\ health.request_count > 0
    /\ health.consecutive_failures < 3
    /\ Age = cfg.CLIENT_MAX_AGE_SECONDS
    /\ 2 * IdleTime <= cfg.CLIENT_MAX_AGE_SECONDS
    /\ ~refresh

\* the pool found by the last operation held a usable pair
UsableBefore ==
    /\ pool_before.client # 0
    /\ pool_before.health.present
    /\ ~needs_refresh(pool_before.health, now, cfg)

\* C11: _get_healthy_client keeps handle and health when a handle exists
\* and its health does not need refresh; otherwise, and only then, it
\* installs a newly created pair.  Either way the pool then holds a handle
\* whose health does not need refresh.
C11_GetHealthyClient ==
    last_op = "get_healthy_client" =>
        /\ UsableBefore => CurrentPool = pool_before
        /\ ~UsableBefore =>
               /\ clients_created = pool_before.created + 1
               /\ client = clients_created
               /\ health = ClientHealth(now)
        /\ client # 0
        /\ health.present
        /\ ~needs_refresh(health, now, cfg)

\* a handle replaced because its health record asked for it
C11_Witness ==
    /\ last_op = "get_healthy_client"
    /\ pool_before.client # 0
    /\ pool_before.health.present
    /\ needs_refresh(pool_before.health, now, cfg)
    /\ client = pool_before.created + 1
    /\ health = ClientHealth(now)

\* C12: _force_client_refresh leaves neither handle nor health record,
\* whatever it found, and the handle it dropped is never the pool's handle
\* again: the next _get_healthy_client installs a newly created one.
C12_ForceThenNew ==
    /\ last_op = "force_client_refresh" =>
           /\ client = 0
           /\ ~health.present
    /\ invalidated # 0 => client # invalidated
    /\ (last_op = "get_healthy_client" /\ pool_before.client = 0) =>
           /\ client = pool_before.created + 1
           /\ client > invalidated

\* a handle with a healthy record was dropped and the next get made a new one
C12_Witness ==
    /\ last_op = "get_healthy_client"
    /\ pool_before.client = 0
    /\ ~pool_before.health.present
    /\ invalidated # 0
    /\ client = invalidated + 1

\* C13: a recorded success leaves consecutive_failures at 0 and
\* request_count one higher, whatever failures were recorded before.
C13_SuccessResets ==
    (last_op = "record_client_success" /\ pool_before.health.present) =>
        /\ health.present
        /\ health.consecutive_failures = 0
        /\ health.request_count = pool_before.health.request_count + 1

\* a success recorded after two failures
C13_Witness ==
    /\ last_op = "record_client_success"
    /\ pool_before.health.present
    /\ pool_before.health.consecutive_failures >= 2
    /\ health.consecutive_failures = 0
    /\ health.request_count = pool_before.health.request_count + 1

\* C14: record_failure adds exactly 1 to consecutive_failures, leaves
\* created_at, last_request_at and request_count as they were, and replaces
\* neither the handle nor the health record.
C14_FailureFrame ==
    last_op = "record_client_failure" =>
        /\ client = pool_before.client
        /\ clients_created = pool_before.created
        /\ health.present = pool_before.health.present
        /\ health.present =>
               /\ health.consecutive_failures =
                      pool_before.health.consecutive_failures + 1
               /\ health.created_at = pool_before.health.created_at
               /\ health.last_request_at = pool_before.health.last_request_at
               /\ health.request_count = pool_before.health.request_count

\* a failure recorded on a record that had served requests some time ago
C14_Witness ==
    /\ last_op = "record_client_failure"
    /\ pool_before.health.present
    /\ pool_before.health.request_count > 0
    /\ pool_before.health.last_request_at < now
    /\ health.consecutive_failures =
           pool_before.health.consecutive_failures + 1

-----------------------------------------------------------------------------
(* Specification of the decoder alone: process_stream (deep.py:529-607) is  *)
(* fed any chunks, one step of its loop at a time, from the state in which  *)
(* deep_research_stream starts it.                                          *)

InitDecoder ==
    /\ cfg = ShortConfig
    /\ now = 0
    /\ client = 1
    /\ health = ClientHealth(0)
    /\ clients_created = 1
    /\ checked = FALSE
    /\ refresh = FALSE
    /\ NoOperation
    /\ TasksIdle
    /\ CallIdle(FreePlan, Args(FALSE, FALSE, FALSE))

\* one pass through the body of `async for chunk in stream`
ProcessChunk ==
    /\ chunks_read < MaxChunks
    /\ \E chunk \in FreeChunks(chunks_read + 1) :
         LET d == process_chunk(StreamState(interaction_id, last_event_id,
                                            is_complete, received_any_event),
                                chunk)
         IN  /\ interaction_id' = d.st.interaction_id
             /\ last_event_id' = d.st.last_event_id
             /\ is_complete' = d.st.is_complete
             /\ received_any_event' = d.st.received_any_event
             /\ SetPool(IF d.ev.event_type = "start"
                        THEN record_client_success(CurrentPool, now)
                        ELSE CurrentPool)
             /\ last_chunk' = chunk
             /\ last_event' = d.ev
             /\ seen_event_id' = IF chunk.event_id # NoneStr /\ chunk.event_id # ""
                                 THEN chunk.event_id ELSE seen_event_id
    /\ chunks_read' = chunks_read + 1
    /\ UNCHANGED <<now, cfg, checked, refresh, last_op, pool_before, invalidated,
                   taskVars, pc, args, outcome, my_client, initial_attempt,
                   stream_retry_count, disconnect_count, wait_time, aggVars,
                   refineVars, plan, stream, n_create, n_resume, n_poll,
                   n_followup, faults, emitted_text, resume_req, initial_sleeps,
                   before_critique, followup_log, dry_resumes, failed_on, grounded_call,
                   terminal_yielded>>

SpecDecoder == InitDecoder /\ [][ProcessChunk]_vars

\* C15: the decoder yields at most one progress event for a chunk:
\* interaction.start gives start with the chunk's interaction id,
\* content.delta gives thought for thought_summary and text for text,
\* interaction.complete with status completed gives complete, error gives
\* error, and every other chunk gives no event.
C15_OneEventPerChunk ==
    last_chunk # NoChunk =>
        LET k == last_chunk.event_type
            expected ==
                IF k = "interaction.start" THEN "start"
                ELSE IF k = "content.delta" /\ last_chunk.dtype = "thought_summary"
                THEN "thought"
                ELSE IF k = "content.delta" /\ last_chunk.dtype = "text"
                THEN "text"
                ELSE IF k = "interaction.complete" /\ last_chunk.status = "completed"
                THEN "complete"
                ELSE IF k = "error" THEN "error"
                ELSE "none"
        IN  /\ last_event.event_type = expected
            /\ expected = "start" => last_event.interaction_id = last_chunk.id
            /\ expected \in {"thought", "text"} =>
                   last_event.content = last_chunk.content
            /\ expected = "none" => last_event = NoProgress

\* a chunk of an unhandled delta kind read after a start chunk gave no event
C15_Witness ==
    /\ interaction_id # NoneStr
    /\ last_chunk.event_type = "content.delta"
    /\ last_chunk.dtype = "image"
    /\ last_event = NoProgress
    /\ chunks_read = 2

\* C16: the remembered last_event_id is the event id of the last chunk that
\* carried a non-empty one, whatever that chunk's kind (interaction.start
\* included); a chunk without an event id leaves it as it was.
C16_LastEventIdFollowsChunks ==
    last_event_id = seen_event_id

\* C18: once the error event for an error chunk has been yielded, no
\* further chunk of that stream is decoded and no further event is yielded.
C18_ErrorEndsStream ==
    [][last_event.event_type = "error" => chunks_read' = chunks_read]_vars

-----------------------------------------------------------------------------
(* Specification of one call against a backend free to answer anything:    *)
(* no client exists yet, auto_refine and grounded are off.                  *)

InitFree ==
    /\ cfg = ShortConfig
    /\ now = 0
    /\ client = 0
    /\ health = NoHealth
    /\ clients_created = 0
    /\ checked = FALSE
    /\ refresh = FALSE
    /\ NoOperation
    /\ TasksIdle
    /\ CallIdle(FreePlan, Args(FALSE, FALSE, FALSE))

Next ==
    \/ StartCall
    \/ ConnectAttempt
    \/ InitialSleep
    \/ ReadInitial
    \/ CheckInteraction
    \/ Reconnect
    \/ ReconnectSleep
    \/ ResumeAttempt
    \/ ReadResumed
    \/ FinalStatus
    \/ Aggregation
    \/ Poll
    \/ PollSleep
    \/ PollEnd
    \/ BuildResult
    \/ Grounded
    \/ Return

Spec == InitFree /\ [][Next]_vars

-----------------------------------------------------------------------------
(* Claims about one call under the free backend *)

\* C1: the text deep_research aggregates from the stream is the concatenation,
\* in arrival order, of the contents of the text events the stream yielded:
\* nothing is reordered, dropped or deduplicated; without polling it is the
\* text of the result.
C1_TextIsConcatenation ==
    /\ Join(text_parts) = emitted_text
    /\ (pc \in {"result", "grounded", "return"}) /\ n_poll = 0
         => final_text = emitted_text
    /\ outcome = Returned /\ n_poll = 0 => result.text = emitted_text

\* the same delta arrived twice and the call returned both
C1_Witness ==
    /\ outcome = Returned
    /\ emitted_text = <<"a", "a">>
    /\ result.text = <<"a", "a">>

\* C2: a resume request carries as last_event_id the event id of the last
\* chunk processed before it, whatever the kind of that chunk.
C2_ResumeCarriesLastEventId ==
    resume_req.id # NoneStr =>
        /\ resume_req.last_event_id = resume_req.processed_event_id
        /\ resume_req.has_last_event_id = (resume_req.processed_event_id # NoneStr)

\* C21: a resume is requested only with an interaction id captured; the
\* request carries that id, and it has a last_event_id field exactly when
\* some chunk read so far carried an event id (the field is left out
\* otherwise, never sent as None).
C21_ResumeRequestShape ==
    /\ pc \in {"reconnect", "reconnect_sleep", "resume", "resumed_stream"} =>
           interaction_id # NoneStr
    /\ resume_req.id # NoneStr =>
           /\ resume_req.id = interaction_id
           /\ resume_req.has_last_event_id => resume_req.last_event_id # NoneStr
           /\ resume_req.has_last_event_id <=>
                  resume_req.processed_event_id # NoneStr

\* C22: the retry counter of the reconnection loop is 0 when the loop is
\* reached, whatever the number of initial attempts used; while the call
\* runs it is the number of passes made since a resumed stream last yielded
\* an event, so it is 0 again after each such event; and never more than
\* MAX_STREAM_RETRIES passes are made in a row without an event.
C22_BudgetPerOutage ==
    /\ pc \in {"idle", "connect", "initial_sleep", "initial_stream", "phase2"} =>
           stream_retry_count = 0
    /\ outcome = Running => stream_retry_count = dry_resumes
    /\ dry_resumes <= cfg.MAX_STREAM_RETRIES

\* after an initial attempt that failed, a resumed stream yielded an event and
\* ended, the counter was back at 0, and the loop is in its next pass
C22_Witness ==
    /\ initial_attempt >= 2
    /\ pc = "resume"
    /\ resume_req.id # NoneStr
    /\ chunks_read >= 2
    /\ stream_retry_count = 1
    /\ dry_resumes = 1

\* C33: once a complete or an error event of the stream has been yielded
\* (is_complete is set with it), no create and no resume request is sent and
\* no further text, thought or start event is yielded to deep_research.
C33_TerminalEventIsLast ==
    [][is_complete =>
         /\ n_create' = n_create
         /\ pc' \notin {"reconnect_sleep", "resume"}
         /\ <<emitted_text, thinking_summaries, agg_id>>'
              = <<emitted_text, thinking_summaries, agg_id>>
      ]_vars

\* C34: when the run of deep_research_stream is over (the call is past the
\* stream: it aggregates, polls, refines, or has ended) a complete or an error
\* event has been yielded in it.
C34_EndsWithTerminalEvent ==
    pc \notin {"idle", "connect", "initial_sleep", "initial_stream", "phase2",
               "reconnect", "reconnect_sleep", "resume", "resumed_stream",
               "phase4"}
        => terminal_yielded

\* the stream was interrupted, was resumed, and the run has ended after a
\* complete event
C34_Witness ==
    /\ pc = "aggregate"
    /\ faults > 0
    /\ resume_req # NoRequest
    /\ is_complete
    /\ terminal_yielded

\* C39: when deep_research has raised TIMEOUT, MAX_POLL_TIME has elapsed since
\* the polling began and no poll has observed the status completed.
C39_TimeoutOnlyAtCeiling ==
    outcome = Raised("TIMEOUT") =>
        /\ ~raw_interaction
        /\ now - poll_start >= MAX_POLL_TIME

\* C9: deep_research never returns normally with an empty text.
C9_NoEmptySuccess ==
    outcome = Returned => result.text # <<>>

\* C19: when the initial-connect phase has ended with no interaction id
\* observed and no error event of the backend yielded, the pool is
\* force-invalidated (no handle, no health record), the error event with
\* no interaction id is yielded, and the stream ends there: the reconnection
\* phase is not entered.
C19_NoInteractionIdFails ==
    [][(pc = "phase2" /\ interaction_id = NoneStr) =>
          /\ client' = 0
          /\ ~health'.present
          /\ outcome' = Raised("RESEARCH_FAILED")
          /\ pc' = "done"]_vars

-----------------------------------------------------------------------------
(* Specification of one call against a scripted backend *)

EmptyStream == RespStream(<<>>, NoExc)

\* create and resume always answer None
NoneBackend == Plan(FALSE, <<>>, <<>>, <<>>)

\* create always answers a stream without chunks
EmptyBackend ==
    Plan(FALSE, <<EmptyStream, EmptyStream, EmptyStream, EmptyStream>>, <<>>, <<>>)

CompletedX == SnapshotOk("completed", TRUE, <<"X">>, 0)

\* the stream gives the start event and closes; the first poll would answer
\* completed with output "X"
StartOnlyPlans ==
    { Plan(FALSE, <<RespStream(<<StartChunk("abc", "e1")>>, NoExc)>>, rs,
           <<CompletedX>>)
      : rs \in {<<>>, <<EmptyStream, EmptyStream>>,
                <<RespRaise(StreamClosed), RespRaise(StreamClosed)>>} }

\* the stream gives the start and the complete event and no text
CompleteNoTextPlans ==
    { Plan(FALSE,
           <<RespStream(<<StartChunk("abc", "e1"),
                          CompleteChunk("completed", "e2")>>, NoExc)>>,
           <<>>, ps)
      : ps \in {<<CompletedX>>,
                <<SnapshotOk("in_progress", FALSE, <<>>, 0), CompletedX>>,
                <<SnapshotOk("completed", FALSE, <<>>, 0)>>} }

HelloChunks ==
    <<StartChunk("abc", "e1"), ThoughtChunk(<<"t1">>, "e2"),
      TextChunk(<<"Hello ">>, "e3")>>

WorldStream ==
    RespStream(<<TextChunk(<<"World">>, "e4"), CompleteChunk("completed", "e5")>>,
               NoExc)

\* the first stream gives start(abc), thought(t1), text(Hello ) and then ends
\* or raises; a resumed stream gives text(World) and complete; a create
\* after the first one answers None, a new interaction, or the same stream
HelloWorldPlans ==
    { Plan(FALSE, <<RespStream(HelloChunks, end)>> \o again, <<WorldStream>>, <<>>)
      : end \in {NoExc, StreamClosed, GatewayTimeout, InvalidArgument,
                 NoneTypeError},
        again \in {<<>>, <<RespStream(<<StartChunk("xyz", "e1")>>, NoExc)>>,
                   <<RespStream(HelloChunks, NoExc)>>} }

\* create fails twice with "gateway_timeout" and then gives a whole report
TwoTimeouts ==
    Plan(FALSE,
         <<RespRaise(GatewayTimeout), RespRaise(GatewayTimeout),
           RespStream(<<StartChunk("abc", "e1"), TextChunk(<<"third">>, "e2"),
                        CompleteChunk("completed", "e3")>>, NoExc)>>,
         <<>>, <<>>)

\* the first stream ends after an interaction.complete chunk whose status is
\* not completed, with or without a start chunk before it; a resumed stream
\* is refused or gives the report
IncompletePlans ==
    { Plan(FALSE, <<RespStream(first, NoExc)>>, rs, <<>>)
      : first \in {<<StartChunk("abc", "e1"), CompleteChunk("in_progress", "e2")>>,
                   <<CompleteChunk("in_progress", "e1")>>},
        rs \in {<<>>, <<WorldStream>>} }

\* create answers None or not at all before, then an attempt fails with an
\* exception no retryable keyword matches, raised by create or by the first
\* read of the stream; a further create would give a whole report
AbortPlans ==
    { Plan(FALSE,
           before \o <<failing,
                       RespStream(<<StartChunk("abc", "e1"),
                                    TextChunk(<<"report">>, "e2"),
                                    CompleteChunk("completed", "e3")>>, NoExc)>>,
           <<>>, <<>>)
      : before \in {<<>>, <<RespNone>>},
        failing \in { RespRaise(e) : e \in {InvalidArgument, OtherTypeError,
                                             NoneTypeError} }
                    \cup { RespStream(<<>>, e) : e \in {InvalidArgument,
                                                         NoneTypeError} } }

\* every stream is finite: the first gives the start event, and each of the
\* next k resumed streams gives one empty text delta and ends
DripPlans ==
    { Plan(FALSE, <<RespStream(<<StartChunk("abc", "e1")>>, NoExc)>>,
           [i \in 1..k |-> RespStream(<<TextChunk(<<>>, NoneStr)>>, NoExc)],
           <<>>)
      : k \in {3, 4} }

\* the stream completes without text; the first poll raises, the second
\* would answer completed with output "X"
PollFaultPlans ==
    { Plan(FALSE,
           <<RespStream(<<StartChunk("abc", "e1"),
                          CompleteChunk("completed", "e2")>>, NoExc)>>,
           <<>>, <<SnapshotRaise(e, 0), CompletedX>>)
      : e \in {GatewayTimeout, StreamClosed, InvalidArgument, OtherTypeError} }

\* after start, a thought and a text delta the backend sends an error chunk,
\* in the first stream (with a text delta behind it) or in a resumed one
ErrorPlans ==
    { Plan(FALSE,
           <<RespStream(HelloChunks \o <<ErrorChunk("e4"),
                                         TextChunk(<<"late">>, "e5")>>, NoExc)>>,
           <<>>, <<CompletedX>>),
      Plan(FALSE, <<RespStream(HelloChunks, NoExc)>>,
           <<RespStream(<<ErrorChunk("e4"), CompleteChunk("completed", "e5")>>,
                        NoExc)>>,
           <<CompletedX>>) }

\* disconnects before the outage at hand: create raises twice before the
\* stream starts, or two resumes raise before a resumed stream gives an
\* event and ends; then one resume raises and the next gives the report
OutagePlans ==
    { Plan(FALSE,
           <<RespRaise(GatewayTimeout), RespRaise(GatewayTimeout),
             RespStream(<<StartChunk("abc", "e1")>>, NoExc)>>,
           <<RespRaise(StreamClosed), WorldStream>>, <<>>),
      Plan(FALSE, <<RespStream(<<StartChunk("abc", "e1")>>, NoExc)>>,
           <<RespRaise(StreamClosed), RespRaise(StreamClosed),
             RespStream(<<TextChunk(<<"Hello ">>, "e2")>>, NoExc),
             RespRaise(StreamClosed), WorldStream>>, <<>>) }

\* the stream completes without text; the first poll observes cancelled,
\* the second would answer completed with output "X"
CancelledPlan ==
    Plan(FALSE,
         <<RespStream(<<StartChunk("abc", "e1"),
                        CompleteChunk("completed", "e2")>>, NoExc)>>,
         <<>>, <<SnapshotOk("cancelled", FALSE, <<>>, 0), CompletedX>>)

ScenarioPlans ==
    {NoneBackend, EmptyBackend, TwoTimeouts, CancelledPlan}
    \cup StartOnlyPlans \cup CompleteNoTextPlans \cup HelloWorldPlans
    \cup IncompletePlans \cup AbortPlans \cup DripPlans \cup PollFaultPlans
    \cup ErrorPlans \cup OutagePlans

\* two reconnection attempts per outage, or five
ScenarioConfigs ==
    { Config(1800, 0, g, m, 2, 60, 2) : g \in {2, 3}, m \in {5, 60} }
    \cup { Config(1800, 0, 2, 60, 2, 60, 5) }

ScenarioArgs == { Args(a, g, FALSE) : a \in BOOLEAN, g \in BOOLEAN }

InitScenario ==
    /\ cfg \in ScenarioConfigs
    /\ now = 0
    /\ client = 0
    /\ health = NoHealth
    /\ clients_created = 0
    /\ checked = FALSE
    /\ refresh = FALSE
    /\ NoOperation
    /\ TasksIdle
    /\ \E pl \in ScenarioPlans, a \in ScenarioArgs : CallIdle(pl, a)

NextScenario ==
    \/ StartCall
    \/ ConnectAttempt
    \/ InitialSleep
    \/ ReadInitial
    \/ CheckInteraction
    \/ Reconnect
    \/ ReconnectSleep
    \/ ResumeAttempt
    \/ ReadResumed
    \/ FinalStatus
    \/ Aggregation
    \/ Poll
    \/ PollSleep
    \/ PollEnd
    \/ BuildResult
    \/ Critique
    \/ FollowUp
    \/ Grounded
    \/ Return

SpecScenario == InitScenario /\ [][NextScenario]_vars

-----------------------------------------------------------------------------
(* Claims about one call against a scripted backend *)

C4_PollingFallback ==
    plan \in StartOnlyPlans /\ pc = "done" =>
        outcome = Returned /\ final_text = <<"X">>

\* C5: when the first stream gives start(abc), thought(t1), text(Hello ) and
\* then ends or raises, and the resumed stream gives text(World) and
\* complete, deep_research returns interaction_id abc, text "Hello World" and
\* thinking_summaries [t1].
C5_HelloWorld ==
    plan \in HelloWorldPlans /\ args = Args(FALSE, FALSE, FALSE) /\ pc = "done" =>
        /\ outcome = Returned
        /\ result = Result(<<"Hello ", "World">>, <<<<"t1">>>>, "abc")

\* C6: when create fails twice with "gateway_timeout" and succeeds on the 3rd
\* attempt, exactly 2 backoff sleeps occur, the second the first times the
\* growth factor, capped at the maximum delay, and the events consumed are the
\* ones of the 3rd attempt's stream.
C6_TwoBackoffSleeps ==
    plan = TwoTimeouts =>
        /\ n_create <= 3
        /\ Len(initial_sleeps) <= 2
        /\ pc \notin {"idle", "connect", "initial_sleep"} =>
             /\ n_create = 3
             /\ initial_sleeps =
                  << Min(RECONNECT_DELAY, cfg.MAX_INITIAL_RETRY_DELAY),
                     Min(RECONNECT_DELAY * cfg.INITIAL_RETRY_BACKOFF,
                         cfg.MAX_INITIAL_RETRY_DELAY) >>
        /\ pc = "done" =>
             /\ outcome = Returned
             /\ chunks_read = 3
             /\ final_text = <<"third">>
             /\ agg_id = "abc"

\* the second sleep is the capped one
C6_Witness ==
    /\ plan = TwoTimeouts
    /\ pc = "done"
    /\ outcome = Returned
    /\ initial_sleeps = <<2, 5>>
    /\ cfg.INITIAL_RETRY_BACKOFF = 3

\* C8: when auto_refine is on and the critique rates the report PASS, no
\* follow-up call is issued and the critique pass leaves the text and the
\* thinking summaries of the result as they were before it.
C8_PassLeavesReport ==
    args.auto_refine /\ critique.rating = "PASS" =>
        /\ n_followup = 0
        /\ followup_log = <<>>
        /\ pc = "grounded" =>
             /\ result.text = before_critique.text
             /\ result.thinking_summaries = before_critique.thinking_summaries

\* the critique rated PASS and still listed follow-up questions
C8_Witness ==
    /\ args.auto_refine
    /\ pc = "grounded"
    /\ critique.rating = "PASS"
    /\ critique.follow_up_questions # <<>>
    /\ before_critique.text # <<>>

\* C17: an interaction.complete chunk whose status is not completed yields
\* no progress event and leaves is_complete false; when its stream has
\* ended and an interaction id is known, the reconnection loop is entered,
\* and the call does not finish before a resume was requested.
C17_IncompleteKeepsWaiting ==
    plan \in IncompletePlans =>
        /\ (pc = "initial_stream" /\ stream.rest # <<>>
             /\ Head(stream.rest).event_type = "interaction.complete") =>
               LET d == process_chunk(StreamState(interaction_id, last_event_id,
                                                  is_complete, received_any_event),
                                      Head(stream.rest))
               IN  /\ d.ev = NoProgress
                   /\ ~d.st.is_complete
        /\ n_resume = 0 => ~is_complete
        /\ (pc = "phase2" /\ interaction_id # NoneStr) =>
               /\ ~no_interaction(interaction_id, is_complete)
               /\ ReconnectPc(is_complete, interaction_id, stream_retry_count)
                      = "reconnect"
        /\ (pc \in {"phase4", "aggregate", "done"} /\ interaction_id # NoneStr) =>
               n_resume >= 1

\* after start and a complete chunk of status in_progress the stream ended
\* and the interaction is being resumed
C17_Witness ==
    /\ plan \in IncompletePlans
    /\ chunks_read = 2
    /\ interaction_id = "abc"
    /\ ~is_complete
    /\ pc = "resume"
    /\ n_resume = 0

\* C23: once three or more resume attempts in a row have failed (raised or
\* returned no stream), the next attempt is made on a connection created
\* after them, never on the one the attempt before it failed on.
C23_ThreeFailuresNewConnection ==
    \A i \in 4..Len(failed_on) :
        /\ failed_on[i] # failed_on[i - 1]
        /\ \A j \in 1..(i - 1) : failed_on[j] < failed_on[i]

\* C24: in one call the create attempts number at most MAX_INITIAL_RETRIES
\* and the resume attempts at most a constant of the configuration, here
\* MAX_STREAM_RETRIES, whatever finite streams the backend gives.
C24_BoundedAttempts ==
    /\ n_create <= MAX_INITIAL_RETRIES
    /\ n_resume <= cfg.MAX_STREAM_RETRIES

\* C25: an exception of a poll whose text is classified retryable (here
\* "gateway_timeout" and "Stream CLOSED") does not leave deep_research: one
\* poll interval is slept and the next poll is made; an exception classified
\* non-retryable leaves deep_research at once, and no further poll is made.
C25_PollExceptions ==
    (plan \in PollFaultPlans /\ n_poll >= 1) =>
        IF plan.polls[1].exc \in {GatewayTimeout, StreamClosed}
        THEN /\ outcome.kind # "raised"
             /\ n_poll = 1 =>
                    \/ pc = "poll_sleep" /\ now = poll_start
                    \/ pc = "poll" /\ now = poll_start + STREAM_POLL_INTERVAL
             /\ n_poll = 2 => final_text = <<"X">>
        ELSE /\ n_poll = 1
             /\ pc = "done"
             /\ outcome = Raised(plan.polls[1].exc.type)

\* the first poll raised "Stream CLOSED", the second was made one interval
\* later and the call returned its report
C25_Witness ==
    /\ plan \in PollFaultPlans
    /\ plan.polls[1].exc = StreamClosed
    /\ n_poll = 2
    /\ outcome = Returned
    /\ result.text = <<"X">>

\* C26: in the step in which deep_research_stream yields an error event (for
\* an error chunk, for a missing interaction id, or for an interrupted run)
\* deep_research raises RESEARCH_FAILED without a result, polls and
\* refinement passes not having run; and a call that has ended takes no
\* further step, so no later event is consumed.
C26_ErrorEventRaises ==
    [][LET error_chunk == /\ pc \in {"initial_stream", "resumed_stream"}
                          /\ stream.rest # <<>>
                          /\ Head(stream.rest).event_type = "error"
           no_id == pc = "phase2" /\ interaction_id = NoneStr /\ ~is_complete
           interrupted == pc = "phase4" /\ ~is_complete
       IN  /\ pc # "done"
           /\ (error_chunk \/ no_id \/ interrupted) =>
                  (/\ pc' = "done"
                   /\ outcome' = Raised("RESEARCH_FAILED")
                   /\ result' = NoResult
                   /\ n_poll' = 0
                   /\ n_followup' = 0
                   /\ critique' = NoCritique)]_vars

\* deep_research raised on an error chunk with text and a thought collected,
\* both passes asked for, and a chunk of the stream left unread
C26_Witness ==
    /\ plan \in ErrorPlans
    /\ args.auto_refine
    /\ args.grounded
    /\ outcome = Raised("RESEARCH_FAILED")
    /\ text_parts = <<<<"Hello ">>>>
    /\ thinking_summaries = <<<<"t1">>>>
    /\ stream.rest # <<>>
    /\ chunks_read = 4

\* C27: a refinement pass whose call raises is a no-op: after a fact-check
\* call that raised, the call of deep_research goes on to its return, raises
\* nothing, and the report text is the text the pass was given.
C27_FailedPassNoOp ==
    (grounded_call.made /\ grounded_call.raised) =>
        /\ pc \in {"return", "done"}
        /\ outcome.kind # "raised"
        /\ result.text = grounded_call.report

\* the follow-up calls of the log that returned text
AnsweredFollowups ==
    SelectSeq(followup_log, LAMBDA e : ~e.reply.raised /\ e.reply.text # <<>>)

\* C28: when the critique rates NEEDS_REFINEMENT and has follow-up questions,
\* then once the follow-ups are over at most 3 calls were made, the i-th of
\* them against the interaction id of the primary result with the i-th
\* question; the report is the primary report followed by one subsection per
\* call that returned text, and thinking_summaries has gained exactly one
\* audit note if there is such a subsection and nothing otherwise.
C28_FollowUps ==
    (/\ pc = "grounded"
     /\ critique # NoCritique
     /\ critique.rating = "NEEDS_REFINEMENT"
     /\ critique.follow_up_questions # <<>>) =>
        LET qs == critique.follow_up_questions
            answered == AnsweredFollowups
            sections == [j \in 1..Len(answered) |->
                           <<"### ", answered[j].query>> \o answered[j].reply.text]
        IN  /\ Len(followup_log) <= 3
            /\ Len(followup_log) <= Len(qs)
            /\ n_followup = Len(followup_log)
            /\ \A i \in 1..Len(followup_log) :
                  /\ followup_log[i].previous_interaction_id
                        = before_critique.interaction_id
                  /\ followup_log[i].query = qs[i]
            /\ refinements = sections
            /\ IF answered = <<>>
               THEN result = before_critique
               ELSE /\ result.text = before_critique.text \o <<"## Refinements">>
                                        \o Join(sections)
                    /\ Len(result.thinking_summaries)
                         = Len(before_critique.thinking_summaries) + 1
                    /\ SubSeq(result.thinking_summaries, 1,
                              Len(before_critique.thinking_summaries))
                         = before_critique.thinking_summaries
                    /\ result.thinking_summaries[Len(result.thinking_summaries)][1]
                         = "Auto-refinement: Addressed "

\* four questions were listed, three were asked, and one or two of the calls
\* returned text
C28_Witness ==
    /\ pc = "grounded"
    /\ critique # NoCritique
    /\ critique.rating = "NEEDS_REFINEMENT"
    /\ Len(critique.follow_up_questions) = 4
    /\ Len(followup_log) = 3
    /\ Len(AnsweredFollowups) \in {1, 2}
    /\ followup_log[2].reply.raised

\* the positions of a call from the critique pass to its return
PassStages == {"critique", "followup", "grounded", "return"}

\* C29: a pass is entered or has run only with a primary result of non-empty
\* text; no critique or follow-up step is taken once the fact-check call is
\* made, and a fact-check made with auto_refine on and an interaction id
\* finds the critique made; from the critique pass on every step leaves the
\* number of create, resume and poll requests and the stream as they were
\* and leads to a later pass or to the return of the result.
C29_PassesAfterResult ==
    [][/\ pc' \in {"critique", "followup"} => result'.text # <<>>
       /\ critique' # NoCritique => before_critique'.text # <<>>
       /\ grounded_call'.made => grounded_call'.report # <<>>
       /\ pc \in {"critique", "followup"} =>
             ~grounded_call.made /\ ~grounded_call'.made
       /\ (/\ grounded_call'.made
           /\ args.auto_refine
           /\ result.interaction_id \notin {NoneStr, ""}) =>
             critique' # NoCritique
       /\ pc \in PassStages =>
             /\ <<n_create, n_resume, n_poll, stream>>'
                  = <<n_create, n_resume, n_poll, stream>>
             /\ pc' \in PassStages \cup {"done"}
             /\ pc' = "done" => outcome' = Returned /\ result' = result
      ]_vars

\* a call that polled, made the critique, follow-ups and the fact-check is
\* about to return
C29_Witness ==
    /\ pc = "return"
    /\ n_poll > 0
    /\ critique # NoCritique
    /\ n_followup > 0
    /\ grounded_call.made

\* C30: a follow-up call that the backend answered without raising and that
\* yielded no text makes research_followup raise a DeepResearchError with the
\* code NO_RESPONSE.
C30_NoResponseCode ==
    \A i \in 1..Len(followup_log) :
        (/\ followup_log[i].answer.kind = "ok"
         /\ ~followup_log[i].answer.has_output) =>
            /\ followup_log[i].reply.raised
            /\ followup_log[i].reply.code = "NO_RESPONSE"

\* C31: once more than timeout seconds of the run have elapsed (the run
\* begins at time 0) the call waits no more: no step sleeps or sends a
\* create, resume or poll request, and the step taken from a stage of
\* streaming, reconnecting or polling raises TIMEOUT.
C31_TimeoutCeiling ==
    [][(/\ now > timeout
        /\ pc \notin {"idle", "done", "result"} \cup PassStages) =>
           /\ <<now, n_create, n_resume, n_poll>>'
                = <<now, n_create, n_resume, n_poll>>
           /\ pc' = "done"
           /\ outcome' = Raised("TIMEOUT")
      ]_vars

\* C32: a create request is sent only while no start event has been observed
\* in the call, that is while no interaction id is captured.
C32_NoCreateAfterStart ==
    [][n_create' > n_create => interaction_id = NoneStr]_vars

\* C35: a step of the reconnection phase that force-invalidates the pool (it
\* leaves the pool without handle) comes after three reconnect failures in a
\* row at least: the pass it belongs to is the third or a later one of the
\* passes of the reconnection loop made since the last event of a resumed
\* stream, a pass in which an event came and the stream then broke counting
\* as the first.
C35_ForceAfterThreeOfOutage ==
    [][(pc \in {"resume", "resumed_stream"} /\ client' = 0) =>
           dry_resumes + 1 >= 3]_vars

\* the attempt of an abort plan that fails, and its exception
FailingAttempt == Len(plan.creates) - 1

FailingException ==
    LET r == plan.creates[FailingAttempt]
    IN  IF r.kind = "raise" THEN r.exc ELSE r.end

C40_TerminalStatusEndsPolling ==
    [][LET terminal(k) ==
               /\ k \in 1..Len(plan.polls)
               /\ plan.polls[k].kind = "ok"
               /\ plan.polls[k].status \in {"completed", "failed", "cancelled"}
       IN  /\ (n_poll' = n_poll + 1 /\ terminal(n_poll')) =>
                  pc' \notin {"poll_sleep", "poll"}
           /\ terminal(n_poll) => n_poll' = n_poll
      ]_vars

-----------------------------------------------------------------------------
(* Specification of two calls of deep_research on one event loop.  A call   *)
(* runs alone between two of its await points, so a step is what it does    *)
(* from one await to the next: it sends a request (after fetching the       *)
(* client where the code fetches it), or it receives the answer and does    *)
(* its bookkeeping on the pool.  Each call sends MaxRequests requests at    *)
(* most.                                                                    *)

MaxRequests == 3

\* a request is sent.  Before a create (619-627), a resume (739-746) and the
\* first poll (880-885) the call fetches the client; a later poll (883-885)
\* is sent on the local variable client of 880.
TaskRequest(t) ==
    /\ tasks[t].sent < MaxRequests
    /\ tasks[t].pc \in {"idle", "to_poll", "polling"}
    /\ LET fetch == tasks[t].pc # "polling"
           p == IF fetch THEN get_healthy_client(CurrentPool, now, cfg)
                ELSE CurrentPool
           mine == IF fetch THEN p.client ELSE tasks[t].client
       IN  /\ SetPool(p)
           /\ health_owner' = IF p.created # clients_created THEN p.client
                               ELSE health_owner
           /\ tasks' = [tasks EXCEPT ![t] =
                          [pc |-> IF tasks[t].pc = "idle" THEN "stream_wait"
                                  ELSE "poll_wait",
                           client |-> mine, sent |-> tasks[t].sent + 1]]
           /\ last_request' = [task |-> t, client |-> mine,
                               pool_client |-> p.client]
    /\ UNCHANGED <<now, cfg, checked, refresh, last_op, pool_before, invalidated,
                   decoderVars, last_record, callVars>>

\* the answer of the request arrives.  A stream that begins (545, 761) and a
\* poll that answers (886) are recorded as a success; no stream, or a
\* retryable exception, as a failure (630, 749, 677); a create that raises
\* an exception of another kind is recorded as a failure and, no interaction
\* id being known, the pool is invalidated (677, 692-706); an exception of a
\* poll is not recorded (919-923).
TaskAnswer(t) ==
    /\ tasks[t].pc \in {"stream_wait", "poll_wait"}
    /\ \E ans \in IF tasks[t].pc = "stream_wait"
                   THEN {"stream", "last_stream", "none", "abort"}
                   ELSE {"in_progress", "completed", "raise"} :
         LET recorded == ans # "raise"
             p == IF ans \in {"stream", "last_stream", "in_progress", "completed"}
                  THEN record_client_success(CurrentPool, now)
                  ELSE IF ans = "none" THEN record_client_failure(CurrentPool)
                  ELSE IF ans = "abort"
                  THEN force_client_refresh(record_client_failure(CurrentPool))
                  ELSE CurrentPool
         IN  /\ SetPool(p)
             /\ health_owner' = IF p.health.present THEN health_owner ELSE 0
             /\ last_record' = IF recorded
                               THEN [task |-> t, client |-> tasks[t].client,
                                     owner |-> IF health.present
                                               THEN health_owner ELSE 0]
                               ELSE last_record
             /\ tasks' = [tasks EXCEPT ![t].pc =
                            CASE ans \in {"stream", "none"} -> "idle"
                              [] ans = "last_stream" -> "to_poll"
                              [] ans \in {"in_progress", "raise"} -> "polling"
                              [] OTHER -> "done"]
    /\ UNCHANGED <<now, cfg, checked, refresh, last_op, pool_before, invalidated,
                   decoderVars, last_request, callVars>>

\* no client exists yet; the pool refreshes after 2 requests, or only by age,
\* idle time and failures
InitConcurrent ==
    /\ cfg \in { Config(1800, r, 2, 60, 2, 60, 2) : r \in {0, 2} }
    /\ now = 0
    /\ client = 0
    /\ health = NoHealth
    /\ clients_created = 0
    /\ checked = FALSE
    /\ refresh = FALSE
    /\ NoOperation
    /\ TasksIdle
    /\ CallIdle(FreePlan, Args(FALSE, FALSE, FALSE))

NextConcurrent ==
    \E t \in Tasks : TaskRequest(t) \/ TaskAnswer(t)

SpecConcurrent == InitConcurrent /\ [][NextConcurrent]_vars

-----------------------------------------------------------------------------
(* Claims about calls that share the pool *)

\* C36: in every state of every interleaving the pool has a handle exactly
\* when it has a health record, and a health record it has was created in
\* the same step as the handle it has.
C36_HandleAndHealthTogether ==
    /\ client = 0 <=> ~health.present
    /\ health.present => health_owner = client

\* both calls have a request under way, each sent on a handle of its own,
\* and the pool holds the later handle with its record
C36_Witness ==
    /\ tasks[1].pc = "stream_wait"
    /\ tasks[2].pc = "stream_wait"
    /\ tasks[1].client # tasks[2].client
    /\ health.present
    /\ health_owner = client
    /\ client = 3

\* C37: a success or failure that is recorded goes to the health record of
\* the handle that served the request: the pool has a record when it is
\* recorded, and that record was created with that handle.
C37_RecordedOnServingHandle ==
    last_record.task # 0 => last_record.owner = last_record.client

\* C38: every request is sent on the handle the pool holds when it is sent,
\* never on one the pool has replaced or dropped.
C38_NoRequestOnDiscarded ==
    last_request.task # 0 => last_request.client = last_request.pool_client

=============================================================================
